---- MODULE Spec2Model ----
(***************************************************************************)
(* Model of papis-uefiscdi: extraction of journal-ranking records from the *)
(* UEFISCDI PDF zone lists and spreadsheet exports.                        *)
(*                                                                         *)
(* Representation.  A Python string whose words are separated by single    *)
(* spaces is the sequence of its words (tokens): "Journal Of Testing" is   *)
(* <<"Journal", "Of", "Testing">>; an empty first or last token stands for *)
(* a leading or trailing space.  The regular expressions of pdf.py are     *)
(* evaluated on token sequences; the tokens of the vocabulary below are    *)
(* chosen so that every match of the source's patterns begins and ends at  *)
(* a token boundary, except inside "N/A" (the only token holding a         *)
(* character outside the name and category classes), which CatTail covers. *)
(* An optional value is a sequence of length at most one: None is <<>> and *)
(* a present value v is <<v>>.                                             *)
(***************************************************************************)
EXTENDS Integers, Sequences, FiniteSets, TLC

\* ------------------------------------------------------------------ bounds
\* Longest page (in lines) handed to a page grammar.
MaxLines == 3
\* Most pages of a document.
MaxPages == 3
\* Most rows of a worksheet (the header row included).
MaxRows == 4
\* Most calls of the command layer in one run.
MaxCalls == 2

\* ------------------------------------------------------------- optionals
None == <<>>
Some(x) == <<x>>
IsNone(o) == o = <<>>
IsSome(o) == o # <<>>

\* ---------------------------------------------------------- sequence help
Range(s) == {s[i] : i \in 1..Len(s)}
SeqsUpTo(S, n) == UNION {[1..k -> S] : k \in 0..n}
Drop(s, k) == IF k >= Len(s) THEN <<>> ELSE SubSeq(s, k + 1, Len(s))
Take(s, k) == IF k <= 0 THEN <<>> ELSE SubSeq(s, 1, IF k > Len(s) THEN Len(s) ELSE k)

RECURSIVE Flatten(_)
Flatten(ss) == IF ss = <<>> THEN <<>> ELSE Head(ss) \o Flatten(Tail(ss))

\* str.strip() of a string held as tokens: leading and trailing empty
\* tokens (the spaces around the text) are removed.
RECURSIVE strip(_)
strip(s) ==
    IF s = <<>> THEN s
    ELSE IF Head(s) = "" THEN strip(Tail(s))
    ELSE IF s[Len(s)] = "" THEN strip(SubSeq(s, 1, Len(s) - 1))
    ELSE s

\* ------------------------------------------------------ character tables
\* str.upper() / str.lower() of one token (tokens without cased letters
\* are unchanged).
upper(t) ==
    CASE t = "2247-004x" -> "2247-004X"
      [] t = "Computer" -> "COMPUTER"
      [] t = "Science" -> "SCIENCE"
      [] t = "Journal" -> "JOURNAL"
      [] t = "Of" -> "OF"
      [] t = "of" -> "OF"
      [] t = "Testing" -> "TESTING"
      [] t = "Mathematics" -> "MATHEMATICS"
      [] t = "Revista" -> "REVISTA"
      [] t = "Informatica" -> "INFORMATICA"
      [] t = "Pagina" -> "PAGINA"
      [] t = "Web" -> "WEB"
      [] t = "Category-Index" -> "CATEGORY-INDEX"
      [] t = "eISSN" -> "EISSN"
      [] t = "conform" -> "CONFORM"
      [] t = "iunie" -> "IUNIE"
      [] t = "Loc" -> "LOC"
      [] t = "in" -> "IN"
      [] t = "zona" -> "ZONA"
      [] t = "name" -> "NAME"
      [] t = "Category" -> "CATEGORY"
      [] t = "Edition" -> "EDITION"
      [] t = "Quartile" -> "QUARTILE"
      [] t = "None" -> "NONE"
      [] t = "n/a" -> "N/A"
      [] t = "q2" -> "Q2"
      [] t = "scie" -> "SCIE"
      [] t = "nan" -> "NAN"
      [] t = "abc" -> "ABC"
      [] t = "not" -> "NOT"
      [] t = "avail" -> "AVAIL"
      [] OTHER -> t

lower(t) ==
    CASE t = "ACTA" -> "acta"
      [] t = "NUMERICA" -> "numerica"
      [] t = "Of" -> "of"
      [] t = "A" -> "a"
      [] t = "Q1" -> "q1"
      [] t = "Q2" -> "q2"
      [] t = "0962-4929" -> "0962-4929"
      [] OTHER -> t

\* Upper-casing the first letter of a token that begins with a letter.
capfirst(t) ==
    CASE t = "acta" -> "Acta"
      [] t = "numerica" -> "Numerica"
      [] t = "of" -> "Of"
      [] t = "a" -> "A"
      [] t = "in" -> "In"
      [] t = "q1" -> "Q1"
      [] t = "q2" -> "Q2"
      [] t = "conform" -> "Conform"
      [] t = "iunie" -> "Iunie"
      [] t = "zona" -> "Zona"
      [] t = "name" -> "Name"
      [] OTHER -> t

\* Number of characters of a token that can stand in an ISSN cell.
toklen(t) ==
    CASE t \in {"1234-5678", "8765-4321", "0962-4929", "1474-0508",
                "2247-004x", "2247-004X", "123456789"} -> 9
      [] t \in {"avail", "AVAIL", "eISSN", "EISSN"} -> 5
      [] t \in {"None", "NONE", "ISSN"} -> 4
      [] t \in {"N/A", "n/a", "not", "NOT"} -> 3
      [] t = "" -> 0

\* len() of a string held as tokens: the tokens and the spaces between them.
RECURSIVE strlen(_)
strlen(s) ==
    IF s = <<>> THEN 0
    ELSE IF Len(s) = 1 THEN toklen(s[1])
    ELSE toklen(Head(s)) + 1 + strlen(Tail(s))

\* -------------------------------------------------------------- titlecase
\* titlecase.titlecase, as applied by row2entry and _parse_score_entries:
\* in a text that is all upper case every word is lower-cased first; a word
\* with an upper-case letter after its first letter is kept (when the text
\* is not all upper case); a small word is lower-cased; any other word gets
\* its first letter capitalised; a small word that begins or ends the text
\* is capitalised.
SmallWords == {"a", "an", "and", "as", "at", "but", "by", "en", "for", "if",
               "in", "of", "on", "or", "the", "to", "v", "via", "vs"}
UcElsewhere == {"SCIE", "AHCI", "ESCI", "SSCI", "ACTA", "NUMERICA", "ISSN",
                "eISSN", "JIF", "AIS", "JCR"}

titlecase(s) ==
    LET all_caps == \A i \in 1..Len(s) : upper(s[i]) = s[i]
        word(i) == IF all_caps THEN lower(s[i]) ELSE s[i]
        tc(i) ==
            IF ~all_caps /\ s[i] \in UcElsewhere THEN s[i]
            ELSE IF lower(word(i)) \in SmallWords
                 THEN IF i = 1 \/ i = Len(s) THEN capfirst(lower(word(i)))
                      ELSE lower(word(i))
            ELSE capfirst(word(i))
    IN [i \in 1..Len(s) |-> tc(i)]

\* ------------------------------------------------------------------ Entry
\* Entry(TypedDict): the eight keys of a journal record.
Entry(category, index, name, issn, eissn, quartile, position, score) ==
    [category |-> category, index |-> index, name |-> name, issn |-> issn,
     eissn |-> eissn, quartile |-> quartile, position |-> position,
     score |-> score]

\* ------------------------------------------------ token classes (pdf.py)
\* (AHCI|ESCI|SCIE|SSCI)
IndexCodes == {"AHCI", "ESCI", "SCIE", "SSCI"}
\* \d{4}-\d{3}[\dxX]: the tokens of the vocabulary that have this shape.
IssnShaped == {"1234-5678", "8765-4321", "0962-4929", "1474-0508",
               "2247-004x", "2247-004X"}
\* (\d{4}-\d{3}[\dxX]|N/A)
_ISSN_RE == IssnShaped \cup {"N/A"}
\* (Q[1234]|N/A)
QuartileTokens == {"Q1", "Q2", "Q3", "Q4", "N/A"}
\* int() of a token matched by (\d+).
DigitValue(t) ==
    CASE t = "1" -> 1
      [] t = "3" -> 3
      [] t = "7" -> 7
      [] t = "12" -> 12
      [] t = "2022" -> 2022
      [] t = "2023" -> 2023
      [] OTHER -> -1
DigitTokens == {"1", "3", "7", "12", "2022", "2023"}
\* Tokens holding a character outside [\w &,\-] and [\(\)\w &\-].
OutOfClass == {"N/A", "n/a"}
\* The longest suffix of a token that lies inside the class.
CatTail(t) == IF t = "N/A" THEN "A" ELSE IF t = "n/a" THEN "a" ELSE t

\* The part of toks[from..upto] a greedy or leftmost class run can cover
\* when it must end at token upto: everything after the last out-of-class
\* token, plus that token's tail.
ClassRun(toks, from, upto) ==
    LET bad == {k \in from..upto : toks[k] \in OutOfClass}
        last == CHOOSE k \in bad : \A j \in bad : j <= k
    IN IF bad = {} THEN SubSeq(toks, from, upto)
       ELSE <<CatTail(toks[last])>> \o SubSeq(toks, last + 1, upto)

\* ---------------------------------------- parse_2023_quartile_zone_entries
\* _LINE_2023_RE, after a separator "-" at token d: the lazy journal name
\* ends before the first token e where issn, eissn, quartile and position
\* follow (0 when there is none).  When the issn follows the index at once
\* the name is the space between them.
NameEnd2023(toks, d) ==
    LET ok(e) == /\ \A k \in (d + 2)..(e - 1) : toks[k] \notin OutOfClass
                 /\ toks[e] \in _ISSN_RE
                 /\ toks[e + 1] \in _ISSN_RE
                 /\ toks[e + 2] \in QuartileTokens
                 /\ toks[e + 3] \in DigitTokens
        E == {e \in (d + 2)..(Len(toks) - 3) : ok(e)}
    IN IF E = {} THEN 0 ELSE CHOOSE e \in E : \A f \in E : e <= f

\* A match of _LINE_2023_RE in toks[from..] can have its " - INDEX" at d.
ValidSep2023(toks, from, d) ==
    /\ d > from
    /\ d + 1 <= Len(toks)
    /\ toks[d] = "-"
    /\ toks[d + 1] \in IndexCodes
    /\ NameEnd2023(toks, d) # 0

\* The first match of _LINE_2023_RE at or after token from: the leftmost
\* start wins, then the greedy category takes the last separator it can
\* reach.  The result is the groups and the token at which the scan resumes;
\* <<>> when there is no match.
Groups2023(toks, from, d, e) ==
    [groups |-> <<ClassRun(toks, from, d - 1), <<toks[d + 1]>>,
                  SubSeq(toks, d + 2, e - 1), <<toks[e]>>, <<toks[e + 1]>>,
                  <<toks[e + 2]>>, <<toks[e + 3]>>>>,
     next |-> e + 4]

LastSep2023(toks, V) ==
    LET d0 == CHOOSE d \in V : \A x \in V : d <= x
        R == {d \in V : \A k \in d0..(d - 1) : toks[k] \notin OutOfClass}
    IN CHOOSE x \in R : \A y \in R : y <= x

MatchAt2023(toks, from, V) ==
    IF V = {} THEN <<>>
    ELSE <<Groups2023(toks, from, LastSep2023(toks, V),
                      NameEnd2023(toks, LastSep2023(toks, V)))>>

Match2023(toks, from) ==
    MatchAt2023(toks, from,
                {d \in from..Len(toks) : ValidSep2023(toks, from, d)})

\* _LINE_2023_RE.finditer(row): the successive non-overlapping matches.
RECURSIVE FindIter2023(_, _), FindNext2023(_, _)
FindIter2023(toks, from) == FindNext2023(toks, Match2023(toks, from))

FindNext2023(toks, m) ==
    IF m = <<>> THEN <<>>
    ELSE <<m[1].groups>> \o FindIter2023(toks, m[1].next)

\* A row2entry that leaves the position token of the row unread.
row2entry_2023_noposition(group) ==
    LET g == [i \in 1..7 |-> strip(group[i])]
    IN Entry(Some(titlecase(g[1])),
             Some(<<upper(g[2][1])>>),
             Some(titlecase(g[3])),
             IF g[4] = <<"N/A">> THEN None ELSE Some(<<upper(g[4][1])>>),
             IF g[5] = <<"N/A">> THEN None ELSE Some(<<upper(g[5][1])>>),
             IF g[6] = <<"N/A">> THEN None ELSE Some(<<upper(g[6][1])>>),
             Some(-1),
             None)

\* parse_2023_quartile_zone_entries.row2entry
row2entry_2023(group) ==
    LET g == [i \in 1..7 |-> strip(group[i])]
    IN Entry(Some(titlecase(g[1])),
             Some(<<upper(g[2][1])>>),
             Some(titlecase(g[3])),
             IF g[4] = <<"N/A">> THEN None ELSE Some(<<upper(g[4][1])>>),
             IF g[5] = <<"N/A">> THEN None ELSE Some(<<upper(g[5][1])>>),
             IF g[6] = <<"N/A">> THEN None ELSE Some(<<upper(g[6][1])>>),
             Some(DigitValue(g[7][1])),
             None)

\* regex.search(line) for one header fragment given as tokens; "ISSN" is
\* also found inside the token "eISSN".
Search(frag, line) ==
    \E i \in 1..(Len(line) - Len(frag) + 1) :
        \A k \in 1..Len(frag) :
            \/ line[i + k - 1] = frag[k]
            \/ Len(frag) = 1 /\ frag[k] = "ISSN" /\ line[i + k - 1] = "eISSN"

_HEADER_FRAGMENTS_2023 ==
    {<<"Web", "of", "Science", "Category-Index">>, <<"Revista">>, <<"ISSN">>,
     <<"eISSN">>, <<"Q", "JIF", "2022">>, <<"Q", "AIS", "2022">>,
     <<"conform", "JCR">>, <<"iunie", "2023">>, <<"Loc", "in", "zona">>,
     <<"Q", "JIF">>, <<"Q", "AIS">>}

\* The header scan of parse_2023_quartile_zone_entries: the index of the
\* first line that matches no fragment and follows a line that matches one;
\* 0 when there is no such line.
HeaderOffset2023(lines) ==
    LET on(i) == \E f \in _HEADER_FRAGMENTS_2023 : Search(f, lines[i])
        I == {i \in 2..Len(lines) : ~on(i) /\ on(i - 1)
                 /\ \A j \in 2..(i - 1) : ~(~on(j) /\ on(j - 1))}
    IN IF I = {} THEN 0 ELSE (CHOOSE i \in I : TRUE) - 1

\* The lines the row loop reads: lines[offset:-1].
RowLines(lines, offset) ==
    IF Len(lines) - 1 <= offset THEN <<>>
    ELSE SubSeq(lines, offset + 1, Len(lines) - 1)

\* The row loop of parse_2023_quartile_zone_entries over the lines it
\* reads: state is the pending row buffer and the entries so far.
RECURSIVE RowLoop2023(_, _, _), RowEmit2023(_, _, _, _)
RowLoop2023(rest, row, entries) ==
    IF rest = <<>> THEN [row |-> row, entries |-> entries]
    ELSE RowEmit2023(Tail(rest), row \o Head(rest), entries,
                     FindIter2023(row \o Head(rest), 1))

\* One pass of the loop body: row is the buffer with the line appended and
\* found the matches in it.
RowEmit2023(rest, row, entries, found) ==
    IF found # <<>>
    THEN RowLoop2023(rest, <<>>,
             entries \o [i \in 1..Len(found) |-> row2entry_2023(found[i])])
    ELSE RowLoop2023(rest, row, entries)

\* The end of a page grammar: no entry on the page is an error.
PageReturn(offset, entries) ==
    IF entries = <<>>
    THEN [raised |-> "RuntimeError", offset |-> offset, entries |-> <<>>]
    ELSE [raised |-> "", offset |-> offset, entries |-> entries]

Rows2023(lines, offset) ==
    PageReturn(offset, RowLoop2023(RowLines(lines, offset), <<>>, <<>>).entries)

\* parse_2023_quartile_zone_entries(lines, fmt): the entries of one page;
\* raised is the exception that ends the call ("" when it returns).
parse_2023_quartile_zone_entries(lines, fmt) ==
    IF fmt \notin {"ais", "jif"}
    THEN [raised |-> "ValueError", offset |-> 0, entries |-> <<>>]
    ELSE Rows2023(lines, HeaderOffset2023(lines))

\* ------------------------------------------------------ page vocabulary
HDR2023 == <<"Web", "of", "Science", "Category-Index", "Revista", "ISSN",
             "eISSN", "Q", "JIF", "2022", "conform", "JCR", "iunie", "2023",
             "Loc", "in", "zona">>
ROW_B == <<"Computer", "Science", "-", "SCIE", "Journal", "Of", "Testing",
           "1234-5678", "N/A", "Q2", "7">>
ROW_A == <<"Mathematics", "-", "AHCI", "ACTA", "NUMERICA", "0962-4929",
           "1474-0508", "N/A", "3">>
ROW_C == <<"Computer", "Science", "-", "SCIE", "Revista", "Informatica",
           "N/A", "2247-004x", "Q1", "12">>
PART_1 == <<"Computer", "Science", "-", "SCIE", "Journal", "Of">>
PART_2 == <<"Testing", "1234-5678", "N/A", "Q2", "7">>
FOOTER == <<"Pagina", "1">>
\* A row whose journal name is missing from the text of the page.
ROW_NONAME == <<"Computer", "Science", "-", "SCIE", "1234-5678", "N/A", "Q2",
                "7">>
Lines2023 ==
    {HDR2023, ROW_A, ROW_B, ROW_C, PART_1, PART_2, FOOTER, ROW_NONAME}

\* ---------------------------------------- parse_2024_quartile_zone_entries
HEADER_NAMES_2024 ==
    {<<"Journal", "name">>, <<"ISSN">>, <<"eISSN">>, <<"Category">>,
     <<"Edition">>, <<"JIF", "Quartile">>, <<"AIS", "Quartile">>}

\* _LINE_2024_RE, after the issn pair at tokens e, e+1: the lazy category
\* ends before the first token x where index and the two quartiles follow
\* (0 when there is none).  When the index follows the eissn at once the
\* category is the space between them.
CategoryEnd2024(toks, e) ==
    LET ok(x) == /\ \A k \in (e + 2)..(x - 1) : toks[k] \notin OutOfClass
                 /\ toks[x] \in IndexCodes
                 /\ toks[x + 1] \in QuartileTokens
                 /\ toks[x + 2] \in QuartileTokens
        X == {x \in (e + 2)..(Len(toks) - 2) : ok(x)}
    IN IF X = {} THEN 0 ELSE CHOOSE x \in X : \A y \in X : x <= y

\* A match of _LINE_2024_RE in toks[from..] can have its issn at token e;
\* at e = from the name is the space in front of it.
ValidIssn2024(toks, from, e) ==
    /\ e >= from
    /\ e + 1 <= Len(toks)
    /\ toks[e] \in _ISSN_RE
    /\ toks[e + 1] \in _ISSN_RE
    /\ CategoryEnd2024(toks, e) # 0

\* The first match of _LINE_2024_RE at or after token from: the leftmost
\* start wins and the lazy name stops at the first issn pair that works.
Groups2024(toks, from, e, x) ==
    [groups |-> <<ClassRun(toks, from, e - 1), <<toks[e]>>, <<toks[e + 1]>>,
                  SubSeq(toks, e + 2, x - 1), <<toks[x]>>, <<toks[x + 1]>>,
                  <<toks[x + 2]>>>>,
     next |-> x + 3]

FirstIssn2024(V) == CHOOSE a \in V : \A b \in V : a <= b

MatchAt2024(toks, from, V) ==
    IF V = {} THEN <<>>
    ELSE <<Groups2024(toks, from, FirstIssn2024(V),
                      CategoryEnd2024(toks, FirstIssn2024(V)))>>

Match2024(toks, from) ==
    MatchAt2024(toks, from,
                {e \in from..Len(toks) : ValidIssn2024(toks, from, e)})

\* _LINE_2024_RE.finditer(row)
RECURSIVE FindIter2024(_, _), FindNext2024(_, _)
FindIter2024(toks, from) == FindNext2024(toks, Match2024(toks, from))

FindNext2024(toks, m) ==
    IF m = <<>> THEN <<>>
    ELSE <<m[1].groups>> \o FindIter2024(toks, m[1].next)

\* A row2entry that reads the JIF column whatever the format.
row2entry_2024_jifonly(group, fmt) ==
    LET g == [i \in 1..7 |-> strip(group[i])]
    IN Entry(Some(titlecase(strip(g[4]))),
             Some(<<upper(g[5][1])>>),
             Some(titlecase(strip(g[1]))),
             IF g[2] = <<"N/A">> THEN None ELSE Some(<<upper(g[2][1])>>),
             IF g[3] = <<"N/A">> THEN None ELSE Some(<<upper(g[3][1])>>),
             IF g[6] = <<"N/A">> THEN None ELSE Some(<<upper(g[6][1])>>),
             Some(-1),
             None)

\* parse_2024_quartile_zone_entries.row2entry (groups are numbered from 1
\* here, so quartile_index is 6 for "jif" and 7 for "ais").
row2entry_2024(group, fmt) ==
    LET g == [i \in 1..7 |-> strip(group[i])]
        quartile_index == IF fmt = "jif" THEN 6 ELSE 7
    IN Entry(Some(titlecase(strip(g[4]))),
             Some(<<upper(g[5][1])>>),
             Some(titlecase(strip(g[1]))),
             IF g[2] = <<"N/A">> THEN None ELSE Some(<<upper(g[2][1])>>),
             IF g[3] = <<"N/A">> THEN None ELSE Some(<<upper(g[3][1])>>),
             IF g[quartile_index] = <<"N/A">> THEN None
             ELSE Some(<<upper(g[quartile_index][1])>>),
             Some(-1),
             None)

\* The header scan of parse_2024_quartile_zone_entries: one past the first
\* line that holds every header name; 0 when there is no such line.
HeaderOffset2024(lines) ==
    LET hdr(i) == \A name \in HEADER_NAMES_2024 : Search(name, lines[i])
        I == {i \in 1..Len(lines) : hdr(i) /\ \A j \in 1..(i - 1) : ~hdr(j)}
    IN IF I = {} THEN 0 ELSE CHOOSE i \in I : TRUE

RECURSIVE RowLoop2024(_, _, _, _), RowEmit2024(_, _, _, _, _)
RowLoop2024(rest, row, entries, fmt) ==
    IF rest = <<>> THEN [row |-> row, entries |-> entries]
    ELSE RowEmit2024(Tail(rest), row \o Head(rest), entries, fmt,
                     FindIter2024(row \o Head(rest), 1))

RowEmit2024(rest, row, entries, fmt, found) ==
    IF found # <<>>
    THEN RowLoop2024(rest, <<>>,
             entries \o [i \in 1..Len(found) |->
                             row2entry_2024(found[i], fmt)],
             fmt)
    ELSE RowLoop2024(rest, row, entries, fmt)

Rows2024(lines, offset, fmt) ==
    PageReturn(offset,
               RowLoop2024(RowLines(lines, offset), <<>>, <<>>, fmt).entries)

\* parse_2024_quartile_zone_entries(lines, fmt)
parse_2024_quartile_zone_entries(lines, fmt) ==
    IF fmt \notin {"ais", "jif"}
    THEN [raised |-> "ValueError", offset |-> 0, entries |-> <<>>]
    ELSE Rows2024(lines, HeaderOffset2024(lines), fmt)

HDR2024 == <<"Journal", "name", "ISSN", "eISSN", "Category", "Edition", "JIF",
             "Quartile", "AIS", "Quartile">>
ROW24_B == <<"Journal", "Of", "Testing", "1234-5678", "N/A", "Computer",
             "Science", "SCIE", "Q2", "Q1">>
ROW24_A == <<"ACTA", "NUMERICA", "0962-4929", "1474-0508", "Mathematics",
             "AHCI", "N/A", "Q1">>
ROW24_C == <<"Revista", "Informatica", "N/A", "2247-004x", "Computer",
             "Science", "SCIE", "Q1", "N/A">>
PART24_1 == <<"Journal", "Of", "Testing", "1234-5678">>
PART24_2 == <<"N/A", "Computer", "Science", "SCIE", "Q2", "Q1">>
ROW24_NONAME == <<"1234-5678", "N/A", "Computer", "Science", "SCIE", "Q2",
                  "Q1">>
Lines2024 ==
    {HDR2024, ROW24_A, ROW24_B, ROW24_C, PART24_1, PART24_2, FOOTER,
     ROW24_NONAME}

\* The page grammar the quartile entry points select for a release.
ParsePage(version, lines, fmt) ==
    IF version = 2024 THEN parse_2024_quartile_zone_entries(lines, fmt)
    ELSE parse_2023_quartile_zone_entries(lines, fmt)
LinesOf(version) == IF version = 2024 THEN Lines2024 ELSE Lines2023

\* ------------------------------------------------------- string ordering
\* The tokens in code-point order: Python compares str values character by
\* character, which on single-spaced texts is the lexicographic order of
\* their token sequences under this token order.
TokenOrder ==
    <<"-", "0962-4929", "1", "12", "1234-5678", "123456789", "1474-0508",
      "2022", "2023", "2247-004X", "2247-004x", "3", "7", "8765-4321", "A",
      "ABC", "ACTA", "AHCI", "AIS", "AVAIL", "Acta", "CATEGORY",
      "CATEGORY-INDEX", "COMPUTER", "CONFORM", "Category",
      "Category-Index", "Computer", "Conform", "EDITION", "EISSN", "ESCI",
      "Edition", "IN", "INFORMATICA", "ISSN", "IUNIE", "In", "Informatica",
      "Iunie", "JCR", "JIF", "JOURNAL", "Journal", "LOC", "Loc",
      "MATHEMATICS", "Mathematics", "N/A", "NAME", "NAN", "NONE", "NOT",
      "NUMERICA", "Name", "None", "Numerica", "OF", "Of", "PAGINA",
      "Pagina", "Q", "Q1", "Q2", "Q3", "Q4", "Q9", "QUARTILE", "Quartile",
      "REVISTA", "Revista", "SCIE", "SCIENCE", "SSCI", "Science",
      "TESTING", "Testing", "WEB", "Web", "ZONA", "Zona", "a", "abc",
      "acta", "an", "and", "as", "at", "avail", "but", "by", "conform",
      "eISSN", "en", "for", "if", "in", "iunie", "n/a", "name", "nan",
      "not", "numerica", "of", "on", "or", "q1", "q2", "scie", "the", "to",
      "v", "via", "vs", "zona">>
TokenRank == [t \in Range(TokenOrder) |->
                 CHOOSE i \in 1..Len(TokenOrder) : TokenOrder[i] = t]

\* a < b and a <= b for two str values.
RECURSIVE StrLess(_, _)
StrLess(a, b) ==
    IF b = <<>> THEN FALSE
    ELSE IF a = <<>> THEN TRUE
    ELSE IF Head(a) = Head(b) THEN StrLess(Tail(a), Tail(b))
    ELSE TokenRank[Head(a)] < TokenRank[Head(b)]
StrLeq(a, b) == a = b \/ StrLess(a, b)

\* ----------------------------------------------------------- sorted(...)
\* The key of the final sort of the quartile entry points:
\* (index, category, quartile or "Q9", position).
SortKey(j) ==
    <<j.index[1], j.category[1],
      IF j.quartile # None THEN j.quartile[1] ELSE <<"Q9">>,
      j.position[1]>>

\* Tuple comparison of two sort keys.
KeyLess(k, l) ==
    \/ StrLess(k[1], l[1])
    \/ k[1] = l[1] /\ StrLess(k[2], l[2])
    \/ k[1] = l[1] /\ k[2] = l[2] /\ StrLess(k[3], l[3])
    \/ k[1] = l[1] /\ k[2] = l[2] /\ k[3] = l[3] /\ k[4] < l[4]
KeyLeq(k, l) == k = l \/ KeyLess(k, l)

\* Insertion of x behind every element whose key is not greater (sorted()
\* is stable).
RECURSIVE InsertByKey(_, _)
InsertByKey(x, acc) ==
    IF acc = <<>> THEN <<x>>
    ELSE IF KeyLess(SortKey(x), SortKey(Head(acc))) THEN <<x>> \o acc
    ELSE <<Head(acc)>> \o InsertByKey(x, Tail(acc))

RECURSIVE SortInto(_, _)
SortInto(rest, acc) ==
    IF rest = <<>> THEN acc
    ELSE SortInto(Tail(rest), InsertByKey(Head(rest), acc))

\* A result that is returned in page order, without the final sort.
sorted_skipped(results) == results

\* sorted(results, key=lambda j: (...))
sorted(results) == SortInto(results, <<>>)

\* ------------------------------------------------- spreadsheet normalizer
\* A worksheet cell is the str() of its value, or None when it is empty; a
\* row is the sequence of its cells.  The getters return the seven-column
\* row, or raise ValueError when the row cannot be unpacked.

\* _normalize_2024_ais_row
_normalize_2024_ais_row(row) ==
    IF Len(row) # 6 THEN [raised |-> "ValueError", row |-> <<>>]
    ELSE [raised |-> "",
          row |-> <<row[1], row[2], row[3], row[4], row[5], row[6], None>>]

\* str(value): the text of a cell value, "None" for an empty cell.
str(cell) == IF cell = None THEN <<"None">> ELSE cell[1]

\* The pieces of text.split(" - "), for texts with at most two separators.
SplitDash(text) ==
    LET D == {i \in 2..(Len(text) - 1) : text[i] = "-"}
        d == CHOOSE i \in D : \A j \in D : i <= j
    IN IF D = {} THEN <<text>>
       ELSE IF Cardinality(D) = 1
            THEN <<SubSeq(text, 1, d - 1), SubSeq(text, d + 1, Len(text))>>
       ELSE <<SubSeq(text, 1, d - 1), <<>>, <<>>>>

\* _normalize_2023_ais_row
_normalize_2023_ais_row(row) ==
    IF Len(row) # 6 THEN [raised |-> "ValueError", row |-> <<>>]
    ELSE LET parts == SplitDash(str(row[4]))
             q == [i \in 1..Len(str(row[6])) |-> upper(str(row[6])[i])]
             quartile == IF q = <<"N/A">> THEN None ELSE Some(q)
         IN IF Len(parts) # 2 THEN [raised |-> "ValueError", row |-> <<>>]
            ELSE [raised |-> "",
                  row |-> <<row[1], row[2], row[3], Some(parts[1]),
                            Some(parts[2]), row[5], quartile>>]

\* _normalize_rif_ris_row
_normalize_rif_ris_row(row) ==
    IF Len(row) # 4 THEN [raised |-> "ValueError", row |-> <<>>]
    ELSE [raised |-> "",
          row |-> <<row[1], row[2], row[3], None, None, row[4], None>>]

\* The getter each score entry point passes for a release.
Getter(layout, row) ==
    CASE layout = "ais2024" -> _normalize_2024_ais_row(row)
      [] layout = "ais2023" -> _normalize_2023_ais_row(row)
      [] OTHER -> _normalize_rif_ris_row(row)

\* float(text): the value (a float is named by its repr), or ValueError.
float(text) ==
    CASE text = <<"3.14">> -> [float |-> "3.14"]
      [] text = <<"0.5">> -> [float |-> "0.5"]
      [] text = <<"7">> -> [float |-> "7.0"]
      [] text = <<"nan">> -> [float |-> "nan"]
      [] OTHER -> [float |-> "ValueError"]

UpperText(text) == [i \in 1..Len(text) |-> upper(text[i])]

\* An Entry whose score falls back to -1 when the cell is no number.
ScoreEntry_sentinel(r) ==
    LET f == float(r[6][1])
        issn == UpperText(strip(str(r[2])))
        eissn == UpperText(strip(str(r[3])))
    IN Entry(IF r[4] # None THEN Some(titlecase(strip(r[4][1]))) ELSE None,
             IF r[5] # None THEN Some(UpperText(strip(r[5][1]))) ELSE None,
             IF r[1] # None THEN Some(titlecase(strip(r[1][1]))) ELSE None,
             IF strlen(issn) # 9 THEN None ELSE Some(issn),
             IF strlen(eissn) # 9 THEN None ELSE Some(eissn),
             r[7],
             None,
             IF f.float = "ValueError" THEN Some([float |-> "-1.0"])
             ELSE Some(f))

\* The Entry _parse_score_entries builds from one normalized row.
ScoreEntry(r) ==
    LET f == float(r[6][1])
        scoref == IF f.float = "ValueError" THEN None ELSE Some(f)
        issn == UpperText(strip(str(r[2])))
        eissn == UpperText(strip(str(r[3])))
    IN Entry(IF r[4] # None THEN Some(titlecase(strip(r[4][1]))) ELSE None,
             IF r[5] # None THEN Some(UpperText(strip(r[5][1]))) ELSE None,
             IF r[1] # None THEN Some(titlecase(strip(r[1][1]))) ELSE None,
             IF strlen(issn) # 9 THEN None ELSE Some(issn),
             IF strlen(eissn) # 9 THEN None ELSE Some(eissn),
             r[7],
             None,
             scoref)

\* A row loop that passes over a row without a score and goes on.
RECURSIVE ScoreLoop_continue(_, _, _, _)
ScoreLoop_continue(rows, results, layout, decoded) ==
    IF rows = <<>>
    THEN [raised |-> "", entries |-> results, decoded |-> decoded]
    ELSE LET g == Getter(layout, Head(rows))
         IN IF g.raised # ""
            THEN [raised |-> g.raised, entries |-> <<>>, decoded |-> decoded]
            ELSE IF g.row[6] = None
            THEN ScoreLoop_continue(Tail(rows), results, layout, decoded)
            ELSE ScoreLoop_continue(Tail(rows),
                                    results \o <<ScoreEntry(g.row)>>,
                                    layout, decoded + 1)

\* The row loop of _parse_score_entries over the rows after the header.
RECURSIVE ScoreLoop(_, _, _, _)
ScoreLoop(rows, results, layout, decoded) ==
    IF rows = <<>>
    THEN [raised |-> "", entries |-> results, decoded |-> decoded]
    ELSE LET g == Getter(layout, Head(rows))
         IN IF g.raised # ""
            THEN [raised |-> g.raised, entries |-> <<>>, decoded |-> decoded]
            ELSE IF g.row[6] = None
            THEN [raised |-> "", entries |-> results, decoded |-> decoded]
            ELSE ScoreLoop(Tail(rows), results \o <<ScoreEntry(g.row)>>,
                           layout, decoded + 1)

\* _parse_score_entries(filename, getter) on a workbook whose active sheet
\* holds the rows of sheet: next(rows) drops the first row.
_parse_score_entries(sheet, layout) ==
    IF sheet = <<>>
    THEN [raised |-> "StopIteration", entries |-> <<>>, decoded |-> 0]
    ELSE ScoreLoop(Tail(sheet), <<>>, layout, 0)

\* ------------------------------------------------------------ worksheets
R4_HDR == <<Some(<<"Journal", "name">>), Some(<<"ISSN">>), Some(<<"eISSN">>),
            Some(<<"Score">>)>>
R4_A == <<Some(<<"Journal", "A">>), Some(<<"1234-5678">>),
          Some(<<"8765-4321">>), Some(<<"3.14">>)>>
R4_B == <<Some(<<"ACTA", "NUMERICA">>), Some(<<"", "2247-004x">>),
          Some(<<"123456789">>), Some(<<"abc">>)>>
R4_C == <<Some(<<"Journal", "Of", "Testing">>), Some(<<"not", "avail">>),
          Some(<<"N/A">>), Some(<<"nan">>)>>
R4_NOSCORE == <<Some(<<"Revista", "Informatica">>), Some(<<"1474-0508">>),
                None, None>>
R4_EMPTY == <<None, None, None, None>>
Rows4 == {R4_HDR, R4_A, R4_B, R4_C, R4_NOSCORE, R4_EMPTY}

R23_HDR == <<Some(<<"Journal", "name">>), Some(<<"ISSN">>), Some(<<"eISSN">>),
             Some(<<"Category">>), Some(<<"Score">>), Some(<<"Quartile">>)>>
R23_A == <<Some(<<"Journal", "Of", "Testing">>), Some(<<"1234-5678">>),
           Some(<<"N/A">>), Some(<<"Computer", "Science", "-", "SCIE">>),
           Some(<<"3.14">>), Some(<<"Q2">>)>>
R23_B == <<Some(<<"ACTA", "NUMERICA">>), Some(<<"0962-4929">>),
           Some(<<"1474-0508">>), Some(<<"Mathematics", "-", "AHCI">>),
           Some(<<"abc">>), Some(<<"n/a">>)>>
R23_C == <<Some(<<"Revista", "Informatica">>), None, Some(<<"2247-004x">>),
           Some(<<"Computer", "Science", "-", "scie">>), Some(<<"7">>), None>>
R23_NOSCORE == <<Some(<<"Journal", "A">>), Some(<<"8765-4321">>), None,
                 Some(<<"Mathematics", "-", "AHCI">>), None, None>>
R23_EMPTY == <<None, None, None, None, None, None>>
Rows23 == {R23_HDR, R23_A, R23_B, R23_C, R23_NOSCORE, R23_EMPTY}

R24_HDR == <<Some(<<"Journal", "name">>), Some(<<"ISSN">>), Some(<<"eISSN">>),
             Some(<<"Category">>), Some(<<"Edition">>), Some(<<"Score">>)>>
R24_A == <<Some(<<"Journal", "Of", "Testing">>), Some(<<"1234-5678">>),
           Some(<<"N/A">>), Some(<<"Computer", "Science">>), Some(<<"scie">>),
           Some(<<"3.14">>)>>
R24_B == <<Some(<<"ACTA", "NUMERICA">>), Some(<<"0962-4929">>),
           Some(<<"1474-0508">>), Some(<<"Mathematics">>), Some(<<"AHCI">>),
           Some(<<"abc">>)>>
R24_C == <<Some(<<"Revista", "Informatica">>), None, Some(<<"2247-004x">>),
           None, None, Some(<<"0.5">>)>>
R24_NOSCORE == <<Some(<<"Journal", "A">>), Some(<<"8765-4321">>), None,
                 Some(<<"Mathematics">>), Some(<<"AHCI">>), None>>
R24_EMPTY == <<None, None, None, None, None, None>>
Rows24 == {R24_HDR, R24_A, R24_B, R24_C, R24_NOSCORE, R24_EMPTY}

RowsOf(layout) ==
    CASE layout = "ais2024" -> Rows24
      [] layout = "ais2023" -> Rows23
      [] OTHER -> Rows4

\* --------------------------------------------------------------- documents
\* Pages of PDF documents: the stripped, non-empty text lines of a page.
P23_A == <<HDR2023, ROW_A, FOOTER>>
P23_B == <<ROW_B, FOOTER>>
P23_CA == <<HDR2023, ROW_C, ROW_A, FOOTER>>
P23_SPLIT == <<PART_1, PART_2, FOOTER>>
P23_NOROWS == <<HDR2023, FOOTER>>
P24_A == <<HDR2024, ROW24_A, FOOTER>>
P24_B == <<ROW24_B, FOOTER>>
P24_CA == <<HDR2024, ROW24_C, ROW24_A, FOOTER>>
P24_SPLIT == <<PART24_1, PART24_2, FOOTER>>
P24_NOROWS == <<HDR2024, FOOTER>>
\* A row with the category, index and quartiles of ROW24_B under another
\* name: the two have equal sort keys.
ROW24_D == <<"Revista", "Informatica", "N/A", "2247-004x", "Computer",
             "Science", "SCIE", "Q2", "Q1">>
P24_D == <<ROW24_D, FOOTER>>
PagesOf(version) ==
    IF version = 2024
    THEN {P24_A, P24_B, P24_CA, P24_SPLIT, P24_NOROWS, P24_D}
    ELSE {P23_A, P23_B, P23_CA, P23_SPLIT, P23_NOROWS}

\* ------------------------------------------------- quartile entry points
_SUPPORTED_VERSIONS == {2023, 2024}

\* for i, page in enumerate(pdf.pages): the pages are parsed in order and
\* their entries appended to results; an exception of a page grammar ends
\* the loop.  read counts the pages handed to the grammar.
RECURSIVE PageLoop(_, _, _, _, _), PageNext(_, _, _, _, _, _)
PageLoop(pages, results, version, fmt, read) ==
    IF pages = <<>>
    THEN [raised |-> "", results |-> results, read |-> read]
    ELSE PageNext(ParsePage(version, Head(pages), fmt), Tail(pages), results,
                  version, fmt, read + 1)

\* journals is what the page grammar gave for the page just read.
PageNext(journals, pages, results, version, fmt, read) ==
    IF journals.raised # ""
    THEN [raised |-> journals.raised, results |-> results, read |-> read]
    ELSE PageLoop(pages, results \o journals.entries, version, fmt, read)

\* The end of a quartile entry point: an exception of the page loop leaves
\* the function, otherwise the results are returned sorted.
QuartileReturn(out) ==
    IF out.raised # ""
    THEN [raised |-> out.raised, site |-> "page",
          io |-> <<"exists", "open">>, results |-> out.results,
          read |-> out.read, ret |-> <<>>]
    ELSE [raised |-> "", site |-> "",
          io |-> <<"exists", "open">>, results |-> out.results,
          read |-> out.read, ret |-> sorted(out.results)]

\* The body shared by the two quartile entry points.  filename is the file
\* behind the path: whether it exists and the pages it holds.  io lists the
\* accesses to the file system, in order.
QuartileEntryPoint(filename, version, fmt) ==
    IF ~filename.exists
    THEN [raised |-> "FileNotFoundError", site |-> "exists",
          io |-> <<"exists">>, results |-> <<>>, read |-> 0, ret |-> <<>>]
    ELSE IF version \notin _SUPPORTED_VERSIONS
    THEN [raised |-> "ValueError", site |-> "version",
          io |-> <<"exists">>, results |-> <<>>, read |-> 0, ret |-> <<>>]
    ELSE QuartileReturn(PageLoop(filename.pages, <<>>, version, fmt, 0))

parse_uefiscdi_journal_impact_factor_quartile(filename, version) ==
    QuartileEntryPoint(filename, version, "jif")

parse_uefiscdi_article_influence_score_quartile(filename, version) ==
    QuartileEntryPoint(filename, version, "ais")

\* ---------------------------------------------------- score entry points
\* A spreadsheet file: kind is "plain" (an unencrypted workbook),
\* "encrypted" (a workbook encrypted with FilePassword) or "missing"; sheet
\* holds the rows of the active worksheet.
FilePassword == "uefiscdi"

\* _decrypt_file(filename, password): the file the caller reads next.  A
\* DecryptionError (the file is not encrypted, or the key does not open it)
\* is caught and the original file returned; any other exception leaves the
\* function.  temp tells whether the temporary copy was created.
_decrypt_file(filename, password) ==
    IF filename.kind = "missing"
    THEN [raised |-> "FileNotFoundError", file |-> filename,
          io |-> <<"mkstemp", "open">>]
    ELSE IF filename.kind = "encrypted" /\ password = FilePassword
    THEN [raised |-> "", file |-> [filename EXCEPT !.kind = "plain"],
          io |-> <<"mkstemp", "open", "write">>]
    ELSE [raised |-> "", file |-> filename, io |-> <<"mkstemp", "open">>]

\* openpyxl.load_workbook(filename) followed by _parse_score_entries' rows.
LoadAndParse(file, layout) ==
    IF file.kind = "missing"
    THEN [raised |-> "FileNotFoundError", site |-> "load_workbook",
          entries |-> <<>>, decoded |-> 0]
    ELSE IF file.kind = "encrypted"
    THEN [raised |-> "BadZipFile", site |-> "load_workbook",
          entries |-> <<>>, decoded |-> 0]
    ELSE LET out == _parse_score_entries(file.sheet, layout)
         IN [raised |-> out.raised,
             site |-> IF out.raised = "" THEN ""
                      ELSE IF out.raised = "StopIteration" THEN "next"
                      ELSE "getter",
             entries |-> out.entries, decoded |-> out.decoded]

\* The body shared by the three score entry points: the version check, the
\* optional decryption, and the row loop with the layout of the release.
ScoreEntryPoint(filename, version, password, layout) ==
    IF version \notin _SUPPORTED_VERSIONS
    THEN [raised |-> "ValueError", site |-> "version", io |-> <<>>,
          ret |-> <<>>, decoded |-> 0]
    ELSE LET dec == IF password # None
                    THEN _decrypt_file(filename, password[1])
                    ELSE [raised |-> "", file |-> filename, io |-> <<>>]
         IN IF dec.raised # ""
            THEN [raised |-> dec.raised, site |-> "decrypt", io |-> dec.io,
                  ret |-> <<>>, decoded |-> 0]
            ELSE LET out == LoadAndParse(dec.file, layout)
                 IN [raised |-> out.raised, site |-> out.site,
                     io |-> dec.io \o <<"load_workbook">>,
                     ret |-> out.entries, decoded |-> out.decoded]

parse_uefiscdi_article_influence_score(filename, version, password) ==
    ScoreEntryPoint(filename, version, password,
                    IF version = 2024 THEN "ais2024" ELSE "ais2023")

parse_uefiscdi_relative_influence_score(filename, version, password) ==
    ScoreEntryPoint(filename, version, password, "rifris")

parse_uefiscdi_relative_impact_factor(filename, version, password) ==
    ScoreEntryPoint(filename, version, password, "rifris")

\* ------------------------------------------------------------- config.py
UEFISCDI_SUPPORTED_DATABASES == {"aisq", "jifq", "ais", "ris", "rif"}

\* UEFISCDI_DATABASE_URL[version][database], without the common prefix
\* "https://uefiscdi.gov.ro/".
UEFISCDI_DATABASE_URL ==
    [y \in 2019..2024 |->
        CASE y = 2024 ->
                 [aisq |-> "resource-861733-JCR.iunie.2024.pdf",
                  jifq |-> "resource-861733-JCR.iunie.2024.pdf",
                  ais |-> "resource-861731-AIS.JCR2023.iunie2024.xlsx",
                  ris |-> "resource-861773-RIS.2023iunie2024.xlsx",
                  rif |-> "resource-861735-FIR.2023iunie2024.xlsx"]
          [] y = 2023 ->
                 [aisq |-> "resource-866007-zone.iunie.2023.ais.pdf",
                  jifq |-> "resource-866009-zone.iunie.2023.jif.pdf",
                  ais |-> "resource-863884-ais_2022.xlsx",
                  ris |-> "resource-863882-ris_2022.xlsx",
                  rif |-> "resource-863887-rif_2022.xlsx"]
          [] y = 2022 ->
                 [aisq |-> "resource-862159-zone.2022.ais.pdf",
                  jifq |-> "resource-862151-zone.2022.if.pdf",
                  ais |-> "resource-862108-ais.2021.xlsx",
                  ris |-> "resource-862102-ris.2021.xlsx",
                  rif |-> "resource-862155-rif.2021.xlsx"]
          [] y = 2021 ->
                 [aisq |-> "resource-820923-ais2021.pdf",
                  jifq |-> "resource-820921-if2021.pdf",
                  ais |-> "resource-820980-ais.2020.xlsx",
                  ris |-> "resource-820984-sri.2020.xlsx",
                  rif |-> "resource-820987-rif.2020.xlsx"]
          [] y = 2020 ->
                 [aisq |-> "resource-821878-clasament2020.ais.pdf",
                  jifq |-> "resource-821873-clasament2020.if.pdf",
                  ais |-> "resource-821312-ais2019-iunie2020-.valori.cuartile.xlsx",
                  ris |-> "resource-829001-sri.2019.xlsx",
                  rif |-> "resource-829003-rif.2019.xlsx"]
          [] OTHER ->
                 [aisq |-> "resource-822841",
                  jifq |-> "resource-822843",
                  ais |-> "resource-828068",
                  ris |-> "resource-828022",
                  rif |-> "resource-828027"]]

\* The password parse_uefiscdi_database_from_url falls back to.
UEFISCDI_DEFAULT_PASSWORD == "uefiscdi"

\* ---------------------------------------- parse_uefiscdi_database_from_url
\* Database(TypedDict)
Database(id, version, url, entries) ==
    [id |-> id, version |-> version, url |-> url, entries |-> entries]

\* max(UEFISCDI_DATABASE_URL): the latest release with a URL mapping.
LatestVersion ==
    CHOOSE y \in DOMAIN UEFISCDI_DATABASE_URL :
        \A z \in DOMAIN UEFISCDI_DATABASE_URL : z <= y

\* The entry point parse_uefiscdi_database_from_url selects for a database
\* id; only "ais" is handed the password.
EntryPointOf(database, filename, version, password) ==
    CASE database = "aisq" ->
             parse_uefiscdi_article_influence_score_quartile(filename, version)
      [] database = "jifq" ->
             parse_uefiscdi_journal_impact_factor_quartile(filename, version)
      [] database = "ais" ->
             parse_uefiscdi_article_influence_score(filename, version,
                                                    Some(password))
      [] database = "ris" ->
             parse_uefiscdi_relative_influence_score(filename, version, None)
      [] OTHER ->
             parse_uefiscdi_relative_impact_factor(filename, version, None)

\* The end of parse_uefiscdi_database_from_url: entries is what the entry
\* point gave for the downloaded file.
FromUrlReturn(database, version, url, entries) ==
    IF entries.raised # ""
    THEN [raised |-> entries.raised, site |-> entries.site,
          io |-> <<"exists", "download">> \o entries.io, version |-> version,
          url |-> url, db |-> None]
    ELSE [raised |-> "", site |-> "",
          io |-> <<"exists", "download">> \o entries.io, version |-> version,
          url |-> url,
          db |-> Some(Database(database, version, url, entries.ret))]

\* The part of parse_uefiscdi_database_from_url that follows the two
\* configuration checks.  local tells whether the path named by url exists;
\* result is what download_document returns: None, or the downloaded file.
FromUrlFetch(database, url, version, password, local, result) ==
    IF local
    THEN [raised |-> "FileNotFoundError", site |-> "local",
          io |-> <<"exists">>, version |-> version, url |-> url, db |-> None]
    ELSE IF result = None
    THEN [raised |-> "FileNotFoundError", site |-> "download",
          io |-> <<"exists", "download">>, version |-> version, url |-> url,
          db |-> None]
    ELSE FromUrlReturn(database, version, url,
                       EntryPointOf(database, result[1], version, password))

\* parse_uefiscdi_database_from_url(database, url, version=, password=):
\* url, version and password are None when the caller leaves them out.
parse_uefiscdi_database_from_url(database, url, version, password, local, result) ==
    LET pw == IF password = None THEN UEFISCDI_DEFAULT_PASSWORD
              ELSE password[1]
        v == IF version = None THEN LatestVersion ELSE version[1]
    IN IF v \notin DOMAIN UEFISCDI_DATABASE_URL
       THEN [raised |-> "ValueError", site |-> "version", io |-> <<>>,
             version |-> v, url |-> "", db |-> None]
       ELSE IF database \notin DOMAIN UEFISCDI_DATABASE_URL[v]
       THEN [raised |-> "ValueError", site |-> "database", io |-> <<>>,
             version |-> v, url |-> "", db |-> None]
       ELSE FromUrlFetch(database,
                         IF url = None THEN UEFISCDI_DATABASE_URL[v][database]
                         ELSE url[1],
                         v, pw, local, result)

\* ------------------------------- papis_uefiscdi/uefiscdi.py (flat layout)
\* The parsers command.py calls by name.  Where a name is also used by
\* src/papis_uefiscdi/uefiscdi.py the one here carries a suffix.
INDEX_ID_TO_NAME == {"AHCI", "SCIE", "SSCI"}
_SUPPORTED_VERSIONS_flat == {2023}
_SUPPORTED_QUARTILES == {"Q1", "Q2", "Q3", "Q4", "N/A"}
\* _ISSN_RE.match(token) for \w{4}-\w{4}|N/A, anchored at the start only.
_ISSN_RE_flat == IssnShaped \cup {"N/A"}

\* str.isdigit() of a token.
isdigit(t) == t \in DigitTokens \cup {"123456789"}
\* line[-1].isdigit() and line[0] == "Q" of a non-empty line.
LastCharIsDigit(line) ==
    line[Len(line)] \in DigitTokens \cup IssnShaped \cup {"123456789"}
                            \cup {"Q1", "Q2", "Q3", "Q4"}
        /\ line[Len(line)] \notin {"2247-004x", "2247-004X"}
FirstCharIsQ(line) ==
    line[1] \in {"Q", "Q1", "Q2", "Q3", "Q4", "Quartile", "QUARTILE"}

\* f"{a} {b}" of two strings held as tokens (the empty string has no token,
\* so the space next to it shows as an empty token).
Join(a, b) ==
    (IF a = <<>> THEN <<"">> ELSE a) \o (IF b = <<>> THEN <<"">> ELSE b)

\* " - " in rest, and the place of the first one.
HasDash(rest) == \E i \in 2..(Len(rest) - 1) : rest[i] = "-"
FirstDash(rest) ==
    CHOOSE i \in 2..(Len(rest) - 1) :
        rest[i] = "-" /\ \A j \in 2..(i - 1) : rest[j] # "-"

\* ZoneEntry(TypedDict): seven keys, every one of them set.
ZoneEntry(category, index, name, issn, eissn, quartile, position) ==
    [category |-> Some(category), index |-> Some(index), name |-> Some(name),
     issn |-> Some(issn), eissn |-> Some(eissn), quartile |-> Some(quartile),
     position |-> Some(position)]

\* ScoreEntry(TypedDict): four keys; issn and eissn are the raw cell values
\* and score is a float, or the int -1.
ScoreEntryDict(name, issn, eissn, score) ==
    [name |-> Some(name), issn |-> issn, eissn |-> eissn,
     score |-> Some(score)]

\* The tail of _parse_jif_zone_entry_2023: category is the text before the
\* first " - " and tail the text after it, whose first four characters are
\* the index.
ZoneBuild(category, tail, issn, eissn, quartile, position) ==
    IF tail[1] \notin INDEX_ID_TO_NAME
    THEN [raised |-> "", entry |-> None]
    ELSE [raised |-> "",
          entry |-> Some(ZoneEntry(titlecase(strip(category)),
                                   <<upper(tail[1])>>,
                                   titlecase(strip(Tail(tail))),
                                   <<upper(issn)>>, <<upper(eissn)>>,
                                   <<quartile>>, DigitValue(position)))]

\* category, rest = rest.split(" - ", maxsplit=1)
ZoneSplit(rest, issn, eissn, quartile, position) ==
    IF ~HasDash(rest) THEN [raised |-> "ValueError", entry |-> None]
    ELSE ZoneBuild(SubSeq(rest, 1, FirstDash(rest) - 1),
                   SubSeq(rest, FirstDash(rest) + 1, Len(rest)),
                   issn, eissn, quartile, position)

\* The second guess for a multi-line row: rest already holds the line
\* before the current one.
ZoneJoinTwo(before, rest, issn, eissn, quartile, position) ==
    IF ~HasDash(rest)
    THEN ZoneSplit(Join(before[1], rest), issn, eissn, quartile, position)
    ELSE IF before[1] = <<>>
    THEN [raised |-> "IndexError", entry |-> None]
    ELSE IF ~LastCharIsDigit(before[1]) /\ ~FirstCharIsQ(before[1])
    THEN ZoneSplit(Join(before[1], rest), issn, eissn, quartile, position)
    ELSE ZoneSplit(rest, issn, eissn, quartile, position)

\* The first guess: without " - " in rest the line before is put in front.
ZoneJoin(before, rest, issn, eissn, quartile, position) ==
    IF HasDash(rest) THEN ZoneSplit(rest, issn, eissn, quartile, position)
    ELSE ZoneJoinTwo(before, Join(before[2], rest), issn, eissn, quartile,
                     position)

\* _parse_jif_zone_entry_2023(before, current): entry is None when the line
\* is no row; an rsplit that finds no space fails to unpack (ValueError).
_parse_jif_zone_entry_2023(before, current) ==
    IF Len(current) < 2 THEN [raised |-> "", entry |-> None]
    ELSE IF ~isdigit(current[Len(current)])
    THEN [raised |-> "", entry |-> None]
    ELSE IF Len(current) = 2 THEN [raised |-> "ValueError", entry |-> None]
    ELSE IF upper(current[Len(current) - 1]) \notin _SUPPORTED_QUARTILES
    THEN [raised |-> "", entry |-> None]
    ELSE IF Len(current) = 3 THEN [raised |-> "ValueError", entry |-> None]
    ELSE IF current[Len(current) - 2] \notin _ISSN_RE_flat
    THEN [raised |-> "", entry |-> None]
    ELSE IF Len(current) = 4 THEN [raised |-> "ValueError", entry |-> None]
    ELSE IF current[Len(current) - 3] \notin _ISSN_RE_flat
    THEN [raised |-> "", entry |-> None]
    ELSE ZoneJoin(before, SubSeq(current, 1, Len(current) - 4),
                  current[Len(current) - 3], current[Len(current) - 2],
                  upper(current[Len(current) - 1]), current[Len(current)])

\* The list comprehension over window(lines): line i is parsed with the
\* two lines before it, for i from the third line on.
RECURSIVE ZoneLines(_, _, _), ZoneLineNext(_, _, _, _)
ZoneLines(lines, i, journals) ==
    IF i > Len(lines) THEN [raised |-> "", entries |-> journals]
    ELSE ZoneLineNext(lines, i, journals,
             _parse_jif_zone_entry_2023(<<lines[i - 2], lines[i - 1]>>,
                                        lines[i]))

ZoneLineNext(lines, i, journals, journal) ==
    IF journal.raised # ""
    THEN [raised |-> journal.raised, entries |-> <<>>]
    ELSE ZoneLines(lines, i + 1, journals \o journal.entry)

\* The page loop shared by the two zone parsers.
RECURSIVE ZonePages(_, _), ZonePageNext(_, _, _)
ZonePages(pages, results) ==
    IF pages = <<>> THEN [raised |-> "", entries |-> results]
    ELSE ZonePageNext(Tail(pages), results, ZoneLines(Head(pages), 3, <<>>))

ZonePageNext(pages, results, journals) ==
    IF journals.raised # ""
    THEN [raised |-> journals.raised, entries |-> <<>>]
    ELSE ZonePages(pages, results \o journals.entries)

ZoneReturn(out) ==
    IF out.raised # "" THEN [raised |-> out.raised, entries |-> <<>>]
    ELSE [raised |-> "", entries |-> sorted(out.entries)]

\* parse_uefiscdi_journal_impact_factor(filename, version=)
parse_uefiscdi_journal_impact_factor(filename, version) ==
    IF ~filename.exists
    THEN [raised |-> "FileNotFoundError", entries |-> <<>>]
    ELSE IF version \notin _SUPPORTED_VERSIONS_flat
    THEN [raised |-> "ValueError", entries |-> <<>>]
    ELSE ZoneReturn(ZonePages(filename.pages, <<>>))

\* parse_uefiscdi_article_influence_score(filename, version=) of the flat
\* layout: the zone parser of the AIS document.
parse_uefiscdi_article_influence_score_flat(filename, version) ==
    IF ~filename.exists
    THEN [raised |-> "FileNotFoundError", entries |-> <<>>]
    ELSE IF version \notin _SUPPORTED_VERSIONS_flat
    THEN [raised |-> "ValueError", entries |-> <<>>]
    ELSE ZoneReturn(ZonePages(filename.pages, <<>>))

\* _decrypt_file of the flat layout: no exception is caught.
_decrypt_file_flat(filename, password) ==
    IF filename.kind = "missing"
    THEN [raised |-> "FileNotFoundError", file |-> filename]
    ELSE IF filename.kind = "encrypted" /\ password = FilePassword
    THEN [raised |-> "", file |-> [filename EXCEPT !.kind = "plain"]]
    ELSE [raised |-> "DecryptionError", file |-> filename]

\* The row loop of _parse_ais_score_entries_2023.
RECURSIVE ScoreRows2023(_, _)
ScoreRows2023(rows, results) ==
    IF rows = <<>> THEN [raised |-> "", entries |-> results]
    ELSE IF Len(Head(rows)) \notin {4, 6}
    THEN ScoreRows2023(Tail(rows), results)
    ELSE IF Head(rows)[IF Len(Head(rows)) = 4 THEN 4 ELSE 5] = None
    THEN [raised |-> "", entries |-> results]
    ELSE IF Head(rows)[1] = None
    THEN [raised |-> "TypeError", entries |-> <<>>]
    ELSE ScoreRows2023(Tail(rows),
             results \o <<ScoreEntryDict(
                 titlecase(Head(rows)[1][1]), Head(rows)[2], Head(rows)[3],
                 IF float(Head(rows)[IF Len(Head(rows)) = 4 THEN 4
                                     ELSE 5][1]).float = "ValueError"
                 THEN [int |-> -1]
                 ELSE float(Head(rows)[IF Len(Head(rows)) = 4 THEN 4
                                       ELSE 5][1]))>>)

\* _parse_ais_score_entries_2023(filename)
_parse_ais_score_entries_2023(file) ==
    IF file.kind = "missing"
    THEN [raised |-> "FileNotFoundError", entries |-> <<>>]
    ELSE IF file.kind = "encrypted"
    THEN [raised |-> "BadZipFile", entries |-> <<>>]
    ELSE IF file.sheet = <<>>
    THEN [raised |-> "StopIteration", entries |-> <<>>]
    ELSE ScoreRows2023(Tail(file.sheet), <<>>)

\* The body shared by the three score parsers of the flat layout.
ScoresOf(dec) ==
    IF dec.raised # "" THEN [raised |-> dec.raised, entries |-> <<>>]
    ELSE _parse_ais_score_entries_2023(dec.file)

ScoreParserFlat(filename, version, password) ==
    IF version \notin _SUPPORTED_VERSIONS_flat
    THEN [raised |-> "ValueError", entries |-> <<>>]
    ELSE IF password = None
    THEN _parse_ais_score_entries_2023(filename)
    ELSE ScoresOf(_decrypt_file_flat(filename, password[1]))

parse_uefiscdi_article_influence_scores(filename, version, password) ==
    ScoreParserFlat(filename, version, password)

parse_uefiscdi_relative_influence_scores(filename, version, password) ==
    ScoreParserFlat(filename, version, password)

parse_uefiscdi_relative_impact_factors(filename, version, password) ==
    ScoreParserFlat(filename, version, password)

\* ---------------------------------------------------- json.dump / json.load
\* A JSON document is held as its syntax tree: null, a string, a number
\* literal (an integer literal, a literal with a fraction, or the constant
\* NaN), an array, or an object with its members in order.
FloatReprs == {"3.14", "0.5", "7.0"}
IntLiterals == (-1..12) \cup (2018..2025)

json_int(n) == [json |-> "int", lit |-> ToString(n)]
json_float(f) ==
    IF f.float = "nan" THEN [json |-> "constant", lit |-> "NaN"]
    ELSE [json |-> "float", lit |-> f.float]
json_str(text) == [json |-> "string", text |-> text]
json_null == [json |-> "null"]

\* int(literal) and float(literal) of the decoder.
int_of(lit) == CHOOSE n \in IntLiterals : ToString(n) = lit
float_of(lit) == [float |-> lit]

\* The keys of an entry in the order the TypedDict was built with.
EntryKeys(e) ==
    IF "score" \in DOMAIN e /\ "position" \in DOMAIN e
    THEN <<"category", "index", "name", "issn", "eissn", "quartile",
           "position", "score">>
    ELSE IF "position" \in DOMAIN e
    THEN <<"category", "index", "name", "issn", "eissn", "quartile",
           "position">>
    ELSE <<"name", "issn", "eissn", "score">>

\* The encoding of one value of an entry: position is an int, score an int
\* or a float, every other value a str; None is written as null.
json_value(key, value) ==
    IF value = None THEN json_null
    ELSE IF key = "position" THEN json_int(value[1])
    ELSE IF key = "score"
    THEN (IF "int" \in DOMAIN value[1] THEN json_int(value[1].int)
          ELSE json_float(value[1]))
    ELSE json_str(value[1])

json_entry(e) ==
    [json |-> "object",
     members |-> [i \in 1..Len(EntryKeys(e)) |->
                     <<EntryKeys(e)[i],
                       json_value(EntryKeys(e)[i], e[EntryKeys(e)[i]])>>]]

\* json.dump(db, outf, indent=2, sort_keys=False)
json_dump(d) ==
    [json |-> "object",
     members |-> <<
         <<"id", json_str(d.id)>>,
         <<"version", json_int(d.version)>>,
         <<"url", json_str(d.url)>>,
         <<"entries",
           [json |-> "array",
            items |-> [i \in 1..Len(d.entries) |->
                          json_entry(d.entries[i])]]>> >>]

\* The decoding of one value of an entry.
py_value(key, j) ==
    CASE j.json = "null" -> None
      [] j.json = "string" -> Some(j.text)
      [] j.json = "int" -> IF key = "score" THEN Some([int |-> int_of(j.lit)])
                           ELSE Some(int_of(j.lit))
      [] j.json = "float" -> Some(float_of(j.lit))
      [] OTHER -> Some([float |-> "nan"])

\* The member of an object with a given key.
Member(obj, key) ==
    obj.members[CHOOSE i \in 1..Len(obj.members) :
                    obj.members[i][1] = key][2]

py_entry(obj) ==
    [key \in {obj.members[i][1] : i \in 1..Len(obj.members)} |->
        py_value(key, Member(obj, key))]

\* json.load(inf) of a cache file.
json_load(doc) ==
    [id |-> Member(doc, "id").text,
     version |-> int_of(Member(doc, "version").lit),
     url |-> Member(doc, "url").text,
     entries |-> [i \in 1..Len(Member(doc, "entries").items) |->
                     py_entry(Member(doc, "entries").items[i])]]

\* -------------------------------------------------------------- command.py
\* The version the settings register by default.
UEFISCDI_DATABASE_YEAR == 2023
\* papis.config.get("password", section="uefiscdi")
ConfigPassword == "uefiscdi"

\* get_uefiscdi_database_path(database, version): the parts of the path
\* below the configuration folder.
get_uefiscdi_database_path(database, version) ==
    <<"uefiscdi", ToString(version), database \o ".json">>

\* The parser parse_uefiscdi selects for a database id.
ParserOf(database, filename, version, password) ==
    CASE database = "aisq" ->
             parse_uefiscdi_article_influence_score_flat(filename, version)
      [] database = "jifq" ->
             parse_uefiscdi_journal_impact_factor(filename, version)
      [] database = "ais" ->
             parse_uefiscdi_article_influence_scores(filename, version,
                                                     Some(password))
      [] database = "ris" ->
             parse_uefiscdi_relative_influence_scores(filename, version, None)
      [] OTHER ->
             parse_uefiscdi_relative_impact_factors(filename, version, None)

ParseReturn(database, version, url, out) ==
    IF out.raised # "" THEN [raised |-> out.raised, db |-> None]
    ELSE [raised |-> "",
          db |-> Some(Database(database, version, url, out.entries))]

\* parse_uefiscdi(database, url, version=, password=); result is what
\* download_document returns.
parse_uefiscdi(database, url, version, password, result) ==
    IF database \notin UEFISCDI_SUPPORTED_DATABASES
    THEN [raised |-> "ValueError", db |-> None]
    ELSE IF result = None
    THEN [raised |-> "FileNotFoundError", db |-> None]
    ELSE ParseReturn(
             database,
             IF version = None THEN UEFISCDI_DATABASE_YEAR ELSE version[1],
             IF url = None
             THEN UEFISCDI_DATABASE_URL[UEFISCDI_DATABASE_YEAR][database]
             ELSE url[1],
             ParserOf(database, result[1],
                      IF version = None THEN UEFISCDI_DATABASE_YEAR
                      ELSE version[1],
                      IF password = None THEN ConfigPassword
                      ELSE password[1]))

\* The folder of a cache file exists once a file was saved in it or below
\* it.
ParentExists(files, filename) ==
    \E f \in DOMAIN files :
        /\ files[f] # None
        /\ Len(f) >= Len(filename)
        /\ SubSeq(f, 1, Len(filename) - 1)
               = SubSeq(filename, 1, Len(filename) - 1)

\* The branch of get_uefiscdi_database that parses and saves: db is what
\* parse_uefiscdi gave.  mkdir tells whether the folder of the release can
\* be made when it is not there.
GetSave(files, filename, db, mkdir) ==
    IF db.raised # ""
    THEN [raised |-> "", caught |-> db.raised, site |-> "parse",
          db |-> None, files |-> files, dumped |-> None]
    ELSE IF ~ParentExists(files, filename) /\ ~mkdir
    THEN [raised |-> "FileNotFoundError", caught |-> "", site |-> "mkdir",
          db |-> None, files |-> files, dumped |-> None]
    ELSE [raised |-> "", caught |-> "", site |-> "saved", db |-> db.db,
          files |-> [files EXCEPT ![filename] = Some(json_dump(db.db[1]))],
          dumped |-> db.db]

\* get_uefiscdi_database below the computation of url.
GetFile(database, url, version, password, overwrite, files, filename, result, mkdir) ==
    IF files[filename] = None \/ overwrite
    THEN GetSave(files, filename,
                 parse_uefiscdi(database, url, Some(version), password,
                                result),
                 mkdir)
    ELSE [raised |-> "", caught |-> "", site |-> "cache",
          db |-> Some(json_load(files[filename][1])), files |-> files,
          dumped |-> None]

\* get_uefiscdi_database(database, overwrite=, password=, version=) with the
\* cache files as they are.
get_uefiscdi_database(database, overwrite, password, version, files, result, mkdir) ==
    LET v == IF version = None THEN UEFISCDI_DATABASE_YEAR ELSE version[1]
    IN IF v # UEFISCDI_DATABASE_YEAR /\ v \notin DOMAIN UEFISCDI_DATABASE_URL
       THEN [raised |-> "", caught |-> "", site |-> "url", db |-> None,
             files |-> files, dumped |-> None]
       ELSE IF v # UEFISCDI_DATABASE_YEAR
               /\ database \notin DOMAIN UEFISCDI_DATABASE_URL[v]
       THEN [raised |-> "KeyError", caught |-> "", site |-> "url",
             db |-> None, files |-> files, dumped |-> None]
       ELSE GetFile(database,
                    IF v = UEFISCDI_DATABASE_YEAR THEN None
                    ELSE Some(UEFISCDI_DATABASE_URL[v][database]),
                    v, password, overwrite, files,
                    get_uefiscdi_database_path(database, v), result, mkdir)

\* get_uefiscdi_database_path(database) of the flat layout: the path has
\* no part for the release.
get_uefiscdi_database_path_flat(database) ==
    <<"uefiscdi", database \o ".json">>

\* get_uefiscdi_database(database, overwrite=, password=) of the flat
\* layout; config_version is the release the settings name when it is
\* called.
get_uefiscdi_database_flat(database, overwrite, password, config_version, files, result, mkdir) ==
    IF files[get_uefiscdi_database_path_flat(database)] = None \/ overwrite
    THEN GetSave(files, get_uefiscdi_database_path_flat(database),
                 parse_uefiscdi(database, None, Some(config_version),
                                password, result),
                 mkdir)
    ELSE [raised |-> "", caught |-> "", site |-> "cache",
          db |-> Some(json_load(
                     files[get_uefiscdi_database_path_flat(database)][1])),
          files |-> files, dumped |-> None]

\* load_uefiscdi_database(database, version)
load_uefiscdi_database(database, version, files) ==
    LET v == IF version = None THEN UEFISCDI_DATABASE_YEAR ELSE version[1]
        filename == get_uefiscdi_database_path(database, v)
    IN IF files[filename] = None
       THEN [raised |-> "", site |-> "missing", db |-> None]
       ELSE [raised |-> "", site |-> "cache",
             db |-> Some(json_load(files[filename][1]))]

\* ------------------------------------------------------------------ state
\* One call of the package at a time: pc is "idle" before the call and
\* "done" once it has returned or raised.  The remaining variables hold the
\* call's arguments (op, database, version, fmt, password, lines, file) and
\* what it produced (offset, decoded, read, results, ret, raised, site, io).
\* file is the file the call reached; a call that ends before it touches
\* the file system leaves NoFile.
\* The command layer is called up to MaxCalls times in a row (pc is "cmd"
\* between its calls): cache holds the JSON document of every cache file,
\* dumped the mapping that was handed to json.dump for it, caught the
\* exception a call logged instead of raising, and db the mapping a call
\* returned (None stands for the empty mapping).
\* An extraction that has ended can be run a second time on the same input
\* (pc is "again" after it): again holds what the second run gave.
VARIABLES pc, op, database, version, fmt, password, lines, file, offset,
          decoded, read, results, ret, raised, site, io, url, db, caught,
          cache, dumped, calls, again

vars == <<pc, op, database, version, fmt, password, lines, file, offset,
          decoded, read, results, ret, raised, site, io, url, db, caught,
          cache, dumped, calls, again>>

\* What the command layer keeps between calls.
store == <<caught, cache, dumped, calls>>

NoFile == [exists |-> FALSE, kind |-> "none", pages |-> <<>>, sheet |-> <<>>]
PdfFile(exists, pages) ==
    [exists |-> exists, kind |-> "pdf", pages |-> pages, sheet |-> <<>>]
XlsxFile(kind, sheet) ==
    [exists |-> kind # "missing", kind |-> kind, pages |-> <<>>,
     sheet |-> sheet]

\* The releases a caller may ask for.
Years == 2022..2025
Formats == {"jif", "ais", "hindex"}
Passwords == {None, Some(FilePassword), Some("secret")}

\* The database ids and releases a caller may name, and the URL arguments.
DatabaseIds == UEFISCDI_SUPPORTED_DATABASES \cup {"hindex"}
VersionArgs == {None, Some(2018), Some(2022), Some(2023), Some(2024),
                Some(2025)}
UrlArgs == {None, Some("journals.pdf")}

\* The cache files the calls can name.
CacheFiles ==
    {get_uefiscdi_database_path(d, v) :
        d \in DatabaseIds, v \in {2018, 2022, 2023, 2024, 2025}}
        \cup {get_uefiscdi_database_path_flat(d) : d \in DatabaseIds}

Init ==
    /\ pc = "idle"
    /\ op = ""
    /\ database = ""
    /\ version = 0
    /\ fmt = ""
    /\ password = None
    /\ lines = <<>>
    /\ file = NoFile
    /\ offset = 0
    /\ decoded = 0
    /\ read = 0
    /\ results = <<>>
    /\ ret = <<>>
    /\ raised = ""
    /\ site = ""
    /\ io = <<>>
    /\ url = ""
    /\ db = None
    /\ caught = ""
    /\ cache = [f \in CacheFiles |-> None]
    /\ dumped = [f \in CacheFiles |-> None]
    /\ calls = 0
    /\ again = None

\* ---------------------------------------------------------------- actions
\* A call of one page grammar on the lines of a page.
PageCall(v, f, l, out) ==
    /\ pc' = "done"
    /\ UNCHANGED again
    /\ op' = "page"
    /\ version' = v
    /\ fmt' = f
    /\ lines' = l
    /\ offset' = out.offset
    /\ ret' = out.entries
    /\ raised' = out.raised
    /\ site' = IF out.raised = "ValueError" THEN "fmt"
               ELSE IF out.raised = "" THEN "" ELSE "page"
    /\ UNCHANGED <<database, password, file, decoded, read, results, io, url,
                   db>>
    /\ UNCHANGED store

\* Pages that open with lines of running text before the first row.
TEXT_2023 == <<FOOTER, FOOTER, FOOTER, ROW_B, FOOTER>>
TEXT_2024 == <<FOOTER, FOOTER, FOOTER, ROW24_B, FOOTER>>

Page2023 ==
    /\ pc = "idle"
    /\ \E f \in Formats, l \in SeqsUpTo(Lines2023, MaxLines) \cup {TEXT_2023} :
           PageCall(2023, f, l, parse_2023_quartile_zone_entries(l, f))

Page2024 ==
    /\ pc = "idle"
    /\ \E f \in Formats, l \in SeqsUpTo(Lines2024, MaxLines) \cup {TEXT_2024} :
           PageCall(2024, f, l, parse_2024_quartile_zone_entries(l, f))

\* A call of a quartile entry point on a PDF file.
QuartileCall(name, f, v, filename, out) ==
    /\ pc' = "done"
    /\ UNCHANGED again
    /\ op' = name
    /\ version' = v
    /\ fmt' = f
    /\ file' = IF out.io = <<>> THEN NoFile ELSE filename
    /\ read' = out.read
    /\ results' = out.results
    /\ ret' = out.ret
    /\ raised' = out.raised
    /\ site' = out.site
    /\ io' = out.io
    /\ UNCHANGED <<database, password, lines, offset, decoded, url, db>>
    /\ UNCHANGED store

PdfFiles(v) ==
    {PdfFile(FALSE, <<>>)}
        \cup {PdfFile(TRUE, p) : p \in SeqsUpTo(PagesOf(v), MaxPages)}

JifQuartile ==
    /\ pc = "idle"
    /\ \E v \in Years : \E filename \in PdfFiles(v) :
           QuartileCall("jifq", "jif", v, filename,
               parse_uefiscdi_journal_impact_factor_quartile(filename, v))

AisQuartile ==
    /\ pc = "idle"
    /\ \E v \in Years : \E filename \in PdfFiles(v) :
           QuartileCall("aisq", "ais", v, filename,
               parse_uefiscdi_article_influence_score_quartile(filename, v))

\* A call of a score entry point on a spreadsheet file.
ScoreCall(name, v, pw, filename, out) ==
    /\ pc' = "done"
    /\ UNCHANGED again
    /\ op' = name
    /\ version' = v
    /\ password' = pw
    /\ file' = IF out.io = <<>> THEN NoFile ELSE filename
    /\ decoded' = out.decoded
    /\ ret' = out.ret
    /\ raised' = out.raised
    /\ site' = out.site
    /\ io' = out.io
    /\ UNCHANGED <<database, fmt, lines, offset, read, results, url, db>>
    /\ UNCHANGED store

LayoutOf(name, v) ==
    IF name = "ais" THEN (IF v = 2024 THEN "ais2024" ELSE "ais2023")
    ELSE "rifris"

\* A header row followed by the first data row of the layout.
SampleSheet(layout) ==
    CASE layout = "ais2024" -> <<R24_HDR, R24_A>>
      [] layout = "ais2023" -> <<R23_HDR, R23_A>>
      [] OTHER -> <<R4_HDR, R4_A>>

\* Worksheets with a row of another width than the rows around it.
WIDE_IN_4 == <<R4_HDR, R4_A, R23_A>>
NARROW_IN_6 == <<R23_HDR, R23_A, R4_A>>

XlsxFiles(layout) ==
    {XlsxFile("missing", <<>>), XlsxFile("encrypted", SampleSheet(layout))}
        \cup {XlsxFile("plain", sh) : sh \in SeqsUpTo(RowsOf(layout), MaxRows)}
        \cup (IF layout = "rifris" THEN {XlsxFile("plain", WIDE_IN_4)} ELSE {})

AisScore ==
    /\ pc = "idle"
    /\ \E v \in Years, pw \in Passwords :
           \E filename \in XlsxFiles(LayoutOf("ais", v)) :
               ScoreCall("ais", v, pw, filename,
                   parse_uefiscdi_article_influence_score(filename, v, pw))

RisScore ==
    /\ pc = "idle"
    /\ \E v \in Years, pw \in Passwords :
           \E filename \in XlsxFiles(LayoutOf("ris", v)) :
               ScoreCall("ris", v, pw, filename,
                   parse_uefiscdi_relative_influence_score(filename, v, pw))

RifScore ==
    /\ pc = "idle"
    /\ \E v \in Years, pw \in Passwords :
           \E filename \in XlsxFiles(LayoutOf("rif", v)) :
               ScoreCall("rif", v, pw, filename,
                   parse_uefiscdi_relative_impact_factor(filename, v, pw))

\* A call of parse_uefiscdi_database_from_url.  The environment settles
\* whether the path named by url exists and what the download gives.
FromUrlCall(d, pw, local, result, out) ==
    /\ pc' = "done"
    /\ UNCHANGED again
    /\ op' = "from_url"
    /\ database' = d
    /\ version' = out.version
    /\ password' = pw
    /\ file' = IF out.io = <<>> \/ result = None THEN NoFile ELSE result[1]
    /\ url' = out.url
    /\ db' = out.db
    /\ ret' = IF out.db = None THEN <<>> ELSE out.db[1].entries
    /\ raised' = out.raised
    /\ site' = out.site
    /\ io' = out.io
    /\ UNCHANGED <<fmt, lines, offset, decoded, read, results>>
    /\ UNCHANGED store

\* The files a download may give for a database of a release.
Downloads(d, v) ==
    IF d \in {"aisq", "jifq"}
    THEN {PdfFile(TRUE, <<>>)}
             \cup {PdfFile(TRUE, <<p>>) : p \in PagesOf(v)}
    ELSE {XlsxFile("encrypted", SampleSheet(LayoutOf(d, v)))}
             \cup {XlsxFile("plain", SampleSheet(LayoutOf(d, v)) \o <<r>>) :
                      r \in RowsOf(LayoutOf(d, v))}

FromUrl ==
    /\ pc = "idle"
    /\ \E d \in DatabaseIds, u \in UrlArgs, v \in VersionArgs,
          pw \in {None, Some("secret")} :
           \E local \in (IF u = None THEN {FALSE} ELSE BOOLEAN),
              result \in {None} \cup
                  {Some(f) : f \in Downloads(d, IF v = None THEN LatestVersion
                                                ELSE v[1])} :
               FromUrlCall(d, pw, local, result,
                   parse_uefiscdi_database_from_url(d, u, v, pw, local,
                                                    result))

\* A second run of the call that has just ended, on the same input with
\* the same arguments; out is what it gives.
SecondCall(out) ==
    /\ pc' = "again"
    /\ again' = Some([ret |-> out.ret, raised |-> out.raised])
    /\ UNCHANGED <<op, database, version, fmt, password, lines, file, offset,
                   decoded, read, results, ret, raised, site, io, url, db>>
    /\ UNCHANGED store

\* The second run that returns its entries in the order of the pages.
QuartileAgain_pageorder ==
    /\ pc = "done"
    /\ op \in {"jifq", "aisq"}
    /\ SecondCall([ret |-> results, raised |-> raised])

QuartileAgain ==
    /\ pc = "done"
    /\ op \in {"jifq", "aisq"}
    /\ SecondCall(IF op = "jifq"
                  THEN parse_uefiscdi_journal_impact_factor_quartile(
                           file, version)
                  ELSE parse_uefiscdi_article_influence_score_quartile(
                           file, version))

ScoreAgain ==
    /\ pc = "done"
    /\ op \in {"ais", "ris", "rif"}
    /\ SecondCall(CASE op = "ais" ->
                       parse_uefiscdi_article_influence_score(
                           file, version, password)
                    [] op = "ris" ->
                       parse_uefiscdi_relative_influence_score(
                           file, version, password)
                    [] OTHER ->
                       parse_uefiscdi_relative_impact_factor(
                           file, version, password))

\* Pages of zone documents as the flat layout reads them.
Z23_BC == <<HDR2023, ROW_A, ROW_B, ROW_C>>
Z23_SPLIT == <<ROW_A, PART_1, PART_2>>
Z23_FOOT == <<HDR2023, ROW_A, ROW_B, FOOTER>>
\* A row of the category of ROW_C that has no quartile, on a page with it.
ROW_E == <<"Computer", "Science", "-", "SCIE", "ACTA", "NUMERICA",
           "0962-4929", "1474-0508", "N/A", "3">>
\* A row of the Emerging Sources Citation Index.
ROW_F == <<"Mathematics", "-", "ESCI", "Journal", "A", "1234-5678",
           "8765-4321", "Q3", "1">>
Z23_NA == <<HDR2023, ROW_B, ROW_E, ROW_C, PART_2, ROW_F>>

\* The files a download may give the command layer for a database.
CommandDownloads(d) ==
    IF d \in {"aisq", "jifq"}
    THEN {PdfFile(TRUE, <<Z23_BC>>), PdfFile(TRUE, <<Z23_SPLIT, Z23_BC>>),
          PdfFile(TRUE, <<Z23_FOOT>>), PdfFile(TRUE, <<Z23_NA>>)}
    ELSE IF d = "ais"
    THEN {XlsxFile("encrypted", <<R23_HDR, R23_A, R23_B>>),
          XlsxFile("encrypted", <<R23_HDR, R23_C, R23_NOSCORE, R23_A>>),
          XlsxFile("plain", <<R23_HDR, R23_A>>),
          XlsxFile("encrypted", NARROW_IN_6)}
    ELSE {XlsxFile("plain", <<R4_HDR, R4_A, R4_B>>),
          XlsxFile("plain", WIDE_IN_4),
          XlsxFile("plain", <<R4_HDR, R4_A, R4_C>>),
          XlsxFile("encrypted", <<R4_HDR, R4_A>>)}

\* A call of get_uefiscdi_database.  The environment settles what the
\* download gives and whether the folder of the release can be made.
GetCall(d, v, pw, result, out) ==
    /\ pc' = "cmd"
    /\ UNCHANGED again
    /\ op' = "get"
    /\ database' = d
    /\ version' = v
    /\ password' = pw
    /\ file' = IF out.site \in {"parse", "mkdir", "saved"} /\ result # None
               THEN result[1] ELSE NoFile
    /\ db' = out.db
    /\ raised' = out.raised
    /\ caught' = out.caught
    /\ site' = out.site
    /\ cache' = out.files
    /\ dumped' = IF out.dumped = None THEN dumped
                 ELSE [dumped EXCEPT ![get_uefiscdi_database_path(d, v)]
                                         = out.dumped]
    /\ calls' = calls + 1
    /\ UNCHANGED <<fmt, lines, offset, decoded, read, results, ret, io, url>>

GetDatabase ==
    /\ pc \in {"idle", "cmd"}
    /\ calls < MaxCalls
    /\ \E d \in DatabaseIds, v \in {None, Some(2018), Some(2023), Some(2024)},
          overwrite \in BOOLEAN, pw \in {None, Some("secret")},
          mkdir \in BOOLEAN :
           \E result \in {None} \cup {Some(f) : f \in CommandDownloads(d)} :
               GetCall(d, IF v = None THEN UEFISCDI_DATABASE_YEAR ELSE v[1],
                       pw, result,
                       get_uefiscdi_database(d, overwrite, pw, v, cache,
                                             result, mkdir))

\* A call of load_uefiscdi_database.
LoadCall(d, v, out) ==
    /\ pc' = "cmd"
    /\ UNCHANGED again
    /\ op' = "load"
    /\ database' = d
    /\ version' = v
    /\ db' = out.db
    /\ raised' = out.raised
    /\ caught' = ""
    /\ site' = out.site
    /\ file' = NoFile
    /\ password' = None
    /\ calls' = calls + 1
    /\ UNCHANGED <<fmt, lines, offset, decoded, read, results, ret, io, url,
                   cache, dumped>>

LoadDatabase ==
    /\ pc \in {"idle", "cmd"}
    /\ calls < MaxCalls
    /\ \E d \in DatabaseIds, v \in {None, Some(2023), Some(2024)} :
           LoadCall(d, IF v = None THEN UEFISCDI_DATABASE_YEAR ELSE v[1],
                    load_uefiscdi_database(d, v, cache))

\* A call of get_uefiscdi_database of the flat layout while the settings
\* name the release y.
GetFlatCall(d, y, pw, result, out) ==
    /\ pc' = "cmd"
    /\ UNCHANGED again
    /\ op' = "getflat"
    /\ database' = d
    /\ version' = y
    /\ password' = pw
    /\ file' = IF out.site \in {"parse", "mkdir", "saved"} /\ result # None
               THEN result[1] ELSE NoFile
    /\ db' = out.db
    /\ raised' = out.raised
    /\ caught' = out.caught
    /\ site' = out.site
    /\ cache' = out.files
    /\ dumped' = IF out.dumped = None THEN dumped
                 ELSE [dumped EXCEPT ![get_uefiscdi_database_path_flat(d)]
                                         = out.dumped]
    /\ calls' = calls + 1
    /\ UNCHANGED <<fmt, lines, offset, decoded, read, results, ret, io, url>>

GetDatabaseFlat ==
    /\ pc \in {"idle", "cmd"}
    /\ calls < MaxCalls
    /\ \E d \in DatabaseIds, y \in {2023, 2024}, overwrite \in BOOLEAN,
          mkdir \in BOOLEAN :
           \E result \in {None} \cup {Some(f) : f \in CommandDownloads(d)} :
               GetFlatCall(d, y, None, result,
                   get_uefiscdi_database_flat(d, overwrite, None, y, cache,
                                              result, mkdir))

Next ==
    \/ Page2023
    \/ Page2024
    \/ JifQuartile
    \/ AisQuartile
    \/ AisScore
    \/ RisScore
    \/ RifScore
    \/ FromUrl
    \/ GetDatabase
    \/ LoadDatabase
    \/ QuartileAgain
    \/ ScoreAgain
    \/ GetDatabaseFlat

Spec == Init /\ [][Next]_vars

\* ================================================================= claims
Count(s, e) == Cardinality({i \in 1..Len(s) : s[i] = e})
IsPermutation(s, t) ==
    /\ Len(s) = Len(t)
    /\ \A i \in 1..Len(s) : Count(s, s[i]) = Count(t, s[i])

QuartileReturned == pc = "done" /\ op \in {"jifq", "aisq"} /\ raised = ""

\* (index, category, quartile or "Q9" when absent, position) of a <= that
\* of b, lexicographically.
C1_KeyLeq(a, b) ==
    LET qa == IF a.quartile = None THEN <<"Q9">> ELSE a.quartile[1]
        qb == IF b.quartile = None THEN <<"Q9">> ELSE b.quartile[1]
    IN \/ StrLess(a.index[1], b.index[1])
       \/ /\ a.index[1] = b.index[1]
          /\ \/ StrLess(a.category[1], b.category[1])
             \/ /\ a.category[1] = b.category[1]
                /\ \/ StrLess(qa, qb)
                   \/ qa = qb /\ a.position[1] <= b.position[1]

\* C1: the list a quartile entry point returns is a permutation of the
\* entries accumulated from all pages, and any entry a that comes before an
\* entry b has (index, category, quartile or "Q9", position) no greater
\* than that of b.
C1_SortedPermutation ==
    QuartileReturned =>
        /\ IsPermutation(ret, results)
        /\ \A i, j \in 1..Len(ret) : i < j => C1_KeyLeq(ret[i], ret[j])

\* C1 witness: a returned result whose order differs from the page order
\* and in which an entry without a quartile follows an entry of the same
\* index and category that has one.
C1_Witness ==
    /\ QuartileReturned
    /\ ret # results
    /\ \E i, j \in 1..Len(ret) :
           /\ i < j
           /\ ret[i].index = ret[j].index
           /\ ret[i].category = ret[j].category
           /\ ret[i].quartile # None
           /\ ret[j].quartile = None

PageReturned == pc = "done" /\ op = "page" /\ raised = ""
ScoreReturned == pc = "done" /\ op \in {"ais", "ris", "rif"} /\ raised = ""

\* The score cell of a worksheet row under the layout of the call.
ScoreCell(row) ==
    CASE LayoutOf(op, version) = "ais2024" -> row[6]
      [] LayoutOf(op, version) = "ais2023" -> row[5]
      [] OTHER -> row[4]

\* C2 as stated: every entry of a quartile grammar has a position and no
\* score, and every entry of the score normalizer has a score and no
\* position.
C2_ExactlyOne ==
    /\ (PageReturned \/ QuartileReturned) =>
           \A i \in 1..Len(ret) :
               ret[i].position # None /\ ret[i].score = None
    /\ ScoreReturned =>
           \A i \in 1..Len(ret) :
               ret[i].score # None /\ ret[i].position = None

\* C2 amended: every entry of a quartile grammar has a position and no
\* score; every entry of the score normalizer has no position, and has a
\* score exactly when the score cell of its row reads as a number (the
\* score then being that number).
C2_PositionXorParsedScore ==
    /\ (PageReturned \/ QuartileReturned) =>
           \A i \in 1..Len(ret) :
               ret[i].position # None /\ ret[i].score = None
    /\ ScoreReturned =>
           \A i \in 1..Len(ret) :
               /\ ret[i].position = None
               /\ ret[i].score # None
                      <=> float(ScoreCell(file.sheet[i + 1])[1]).float
                              # "ValueError"
               /\ ret[i].score # None
                      => ret[i].score[1] = float(ScoreCell(file.sheet[i + 1])[1])

\* C2 witness: the score normalizer returned an entry with a score and an
\* entry with neither score nor position (its cell is no number).
C2_Witness ==
    /\ ScoreReturned
    /\ \E i, j \in 1..Len(ret) :
           /\ ret[i].score # None
           /\ ret[j].score = None
           /\ ret[j].position = None

\* The entry scenario B expects from the line ROW_B.
C3_Expected ==
    Entry(Some(<<"Computer", "Science">>), Some(<<"SCIE">>),
          Some(<<"Journal", "Of", "Testing">>), Some(<<"1234-5678">>), None,
          Some(<<"Q2">>), Some(7), None)

\* C3: parsing a 2023-family page whose only line is "Computer Science -
\* SCIE Journal Of Testing 1234-5678 N/A Q2 7" returns exactly one entry,
\* with category "Computer Science", index "SCIE", name "Journal Of
\* Testing", issn "1234-5678", no eissn, quartile "Q2", position 7 and no
\* score.
C3_ScenarioB ==
    (pc = "done" /\ op = "page" /\ version = 2023 /\ fmt \in {"jif", "ais"}
        /\ lines = <<ROW_B>>)
        => raised = "" /\ ret = <<C3_Expected>>

\* The entry scenario A expects from the row R4_A.
C4_Expected ==
    Entry(None, None, Some(<<"Journal", "A">>), Some(<<"1234-5678">>),
          Some(<<"8765-4321">>), None, None, Some([float |-> "3.14"]))

FourColumnReturned == pc = "done" /\ op \in {"ris", "rif"} /\ file.exists

\* C4 as stated: a 4-column worksheet whose rows are ["Journal A",
\* "1234-5678", "8765-4321", 3.14] and then a row with an empty score cell
\* yields exactly the one entry of scenario A, and no row at or after the
\* empty-score row is decoded.
C4_ScenarioA ==
    (FourColumnReturned /\ file.sheet = <<R4_A, R4_NOSCORE>>)
        => raised = "" /\ ret = <<C4_Expected>> /\ decoded = 1

\* C4 amended: a 4-column worksheet whose first row (the header row, which
\* is discarded) is followed by the row ["Journal A", "1234-5678",
\* "8765-4321", 3.14] and then by a row with an empty score cell yields
\* exactly the one entry of scenario A, whatever rows follow, and no row at
\* or after the empty-score row is decoded.
C4_ScenarioAAfterHeader ==
    (FourColumnReturned /\ Len(file.sheet) >= 3
        /\ file.sheet[2] = R4_A /\ file.sheet[3] = R4_NOSCORE)
        => raised = "" /\ ret = <<C4_Expected>> /\ decoded = 1

\* C4 witness: header, "Journal A", an empty-score row and a further row
\* with a score were read, and the one entry came back.
C4_Witness ==
    /\ FourColumnReturned
    /\ file.sheet = <<R4_HDR, R4_A, R4_NOSCORE, R4_A>>
    /\ ret = <<C4_Expected>>
    /\ decoded = 1

\* A score entry point reached the row loop of a readable worksheet.
ScoreSheetRead ==
    /\ pc = "done"
    /\ op \in {"ais", "ris", "rif"}
    /\ file.kind = "plain"
    /\ file.sheet # <<>>

\* The data rows with an empty score cell.
EmptyScoreRows ==
    {k \in 1..Len(Tail(file.sheet)) : ScoreCell(Tail(file.sheet)[k]) = None}

\* C5: in every column layout, when the data rows before the first row with
\* an empty score cell are well formed, _parse_score_entries stops at that
\* row without raising: it returns one entry per data row before it, in
\* worksheet order, and nothing for the rows after it.
C5_StopsAtEmptyScore ==
    (ScoreSheetRead /\ EmptyScoreRows # {}) =>
        LET data == Tail(file.sheet)
            layout == LayoutOf(op, version)
            first == CHOOSE k \in EmptyScoreRows :
                         \A j \in EmptyScoreRows : k <= j
        IN (\A i \in 1..(first - 1) : Getter(layout, data[i]).raised = "")
               => /\ raised = ""
                  /\ Len(ret) = first - 1
                  /\ \A i \in 1..(first - 1) :
                         ret[i] = ScoreEntry(Getter(layout, data[i]).row)

\* A text of the NNNN-NNNN shape once surrounding blanks are removed.
HasIssnShape(text) == Len(strip(text)) = 1 /\ strip(text)[1] \in IssnShaped

\* The entry field the claim prescribes for the text of an ISSN cell.
C6_Field(text) ==
    IF HasIssnShape(text) THEN Some(UpperText(strip(text))) ELSE None

\* C6: an ISSN or eISSN token that lacks the 9-character NNNN-NNNN shape
\* gives an absent field and no exception, and a token of that shape gives
\* the uppercased token: for every entry of a worksheet row the two fields
\* are those prescribed for the row's cells, and every ISSN field of an
\* entry of a PDF page is absent or an uppercased token of that shape.
C6_IssnNormalized ==
    /\ (ScoreSheetRead /\ raised = "") =>
           \A i \in 1..Len(ret) :
               /\ ret[i].issn = C6_Field(str(Tail(file.sheet)[i][2]))
               /\ ret[i].eissn = C6_Field(str(Tail(file.sheet)[i][3]))
    /\ (PageReturned \/ QuartileReturned) =>
           \A i \in 1..Len(ret) :
               {ret[i].issn, ret[i].eissn}
                   \subseteq {None} \cup {Some(<<upper(t)>>) : t \in IssnShaped}

\* A line on which every header fragment of the grammar is found, and a
\* line on which none is.
AllHeader(v, line) ==
    IF v = 2024 THEN \A name \in HEADER_NAMES_2024 : Search(name, line)
    ELSE /\ \A f \in {<<"Web", "of", "Science", "Category-Index">>,
                      <<"Revista">>, <<"ISSN">>, <<"eISSN">>,
                      <<"conform", "JCR">>, <<"iunie", "2023">>,
                      <<"Loc", "in", "zona">>} : Search(f, line)
         /\ \E f \in {<<"Q", "JIF", "2022">>, <<"Q", "AIS", "2022">>} :
                Search(f, line)
NoHeader(v, line) ==
    IF v = 2024 THEN \A name \in HEADER_NAMES_2024 : ~Search(name, line)
    ELSE \A f \in _HEADER_FRAGMENTS_2023 : ~Search(f, line)

\* C7: for every N >= 1, on a page whose first N lines each hold all header
\* fragments and whose line N + 1 holds none, the header locator of either
\* page grammar gives offset N.
C7_HeaderOffset ==
    (pc = "done" /\ op = "page" /\ fmt \in {"jif", "ais"}) =>
        \A N \in 1..(Len(lines) - 1) :
            (/\ \A i \in 1..N : AllHeader(version, lines[i])
             /\ NoHeader(version, lines[N + 1]))
                => offset = N

\* A quartile entry point reached the page loop of a document.
PageLoopReached ==
    /\ pc = "done"
    /\ op \in {"jifq", "aisq"}
    /\ file.exists
    /\ version \in _SUPPORTED_VERSIONS

\* The rows of the pages of the document, page after page.
RECURSIVE RowsOfPages(_)
RowsOfPages(pages) ==
    IF pages = <<>> THEN <<>>
    ELSE ParsePage(version, Head(pages), fmt).entries
             \o RowsOfPages(Tail(pages))

\* C9: in a document of two or more pages a page without rows is no error:
\* RuntimeError is raised exactly when every page is without rows, and
\* otherwise the call returns and has accumulated the rows of all the pages
\* that have some.
C9_EmptyPageTolerated ==
    (PageLoopReached /\ Len(file.pages) >= 2) =>
        /\ raised = "RuntimeError" <=> RowsOfPages(file.pages) = <<>>
        /\ RowsOfPages(file.pages) # <<>>
               => raised = "" /\ results = RowsOfPages(file.pages)

\* C8: a request for an unsupported (database, year) pair ends in ValueError
\* before any download, file-existence check, decryption or file open: in
\* parse_uefiscdi_database_from_url for a database id outside the five
\* supported ones or a year outside {2023, 2024}, and in each entry point
\* for a year outside {2023, 2024}.
C8_FailFast ==
    /\ (pc = "done" /\ op = "from_url"
            /\ (database \notin UEFISCDI_SUPPORTED_DATABASES
                    \/ version \notin {2023, 2024}))
           => raised = "ValueError" /\ io = <<>>
    /\ (pc = "done" /\ op \in {"jifq", "aisq", "ais", "ris", "rif"}
            /\ version \notin {2023, 2024})
           => raised = "ValueError" /\ io = <<>>

\* A call of the command layer read the cache file of (database, version).
CacheRead ==
    /\ pc = "cmd"
    /\ op \in {"get", "load"}
    /\ site = "cache"

\* The mapping that was saved in the cache file the call read.
SavedDatabase == dumped[get_uefiscdi_database_path(database, version)][1]

\* A mapping holds a score that is not a number.
HasNaN(d) ==
    \E i \in 1..Len(d.entries) :
        /\ "score" \in DOMAIN d.entries[i]
        /\ d.entries[i].score = Some([float |-> "nan"])

\* a == b of two mappings, where b was decoded from a file: equal values
\* compare equal, except that a nan compares unequal to every float.
PyEq(a, b) == a = b /\ ~HasNaN(a)

\* C10: once get_uefiscdi_database has parsed and saved a mapping, a read of
\* the cache file of the same (database, version), by load_uefiscdi_database
\* or by get_uefiscdi_database without overwrite, returns a mapping equal to
\* the saved one: id, version, url and every field of every entry, the null
\* ones included.
C10_RoundTrip ==
    CacheRead => db # None /\ PyEq(SavedDatabase, db[1])

\* An extraction was run twice on the same document with the same arguments.
RanTwice == pc = "again" /\ op \in {"jifq", "aisq", "ais", "ris", "rif"}

ParserReturned ==
    /\ pc = "done"
    /\ op \in {"page", "jifq", "aisq", "ais", "ris", "rif", "from_url"}
    /\ raised = ""

EntryKeySet ==
    {"category", "index", "name", "issn", "eissn", "quartile", "position",
     "score"}
StringKeys == {"category", "index", "name", "issn", "eissn", "quartile"}

\* C12: every entry a parser returns carries the eight keys category, index,
\* name, issn, eissn, quartile, position and score, and none of its string
\* fields is the empty string: a value that is not known is None.
C12_KeysAndNoEmptyString ==
    ParserReturned =>
        \A i \in 1..Len(ret) :
            /\ DOMAIN ret[i] = EntryKeySet
            /\ \A k \in StringKeys : ret[i][k] # Some(<<>>)

\* A score extraction that was handed a password for an encrypted workbook:
\* through a score entry point, or through get_uefiscdi_database("ais").
ScoreDecrypted ==
    /\ pc = "done"
    /\ op \in {"ais", "ris", "rif"}
    /\ version \in _SUPPORTED_VERSIONS
    /\ file.kind = "encrypted"
    /\ password # None
CommandDecrypted ==
    /\ pc = "cmd"
    /\ op = "get"
    /\ database = "ais"
    /\ site \in {"parse", "mkdir", "saved"}
    /\ file.kind = "encrypted"
\* The password the command layer hands on: the configured one by default.
CommandPassword == IF password = None THEN ConfigPassword ELSE password[1]

\* C13: with a wrong password _decrypt_file raises nothing and hands back the
\* original, still encrypted file, and the extraction around it ends when
\* the workbook is loaded, without entries; with the right password it
\* writes a plaintext copy and the rows of that copy are read.
C13_DecryptFailsClosed ==
    /\ (ScoreDecrypted /\ password[1] # FilePassword) =>
           /\ raised = "BadZipFile"
           /\ site = "load_workbook"
           /\ ret = <<>>
           /\ "write" \notin Range(io)
    /\ (ScoreDecrypted /\ password[1] = FilePassword) =>
           /\ "write" \in Range(io)
           /\ site # "load_workbook"
    /\ (CommandDecrypted /\ CommandPassword # FilePassword) =>
           /\ site = "parse"
           /\ caught = "BadZipFile"
           /\ db = None
    /\ (CommandDecrypted /\ CommandPassword = FilePassword) =>
           caught \notin {"DecryptionError", "BadZipFile"}

\* A score entry point returned or raised.
ScoreEnded == pc = "done" /\ op \in {"ais", "ris", "rif"}

\* C14: when a score entry point returns or raises, the temporary copy that
\* _decrypt_file made has been removed and the workbook that was loaded
\* has been closed.
C14_ResourcesReleased ==
    ScoreEnded =>
        /\ Count(io, "mkstemp") = Count(io, "unlink")
        /\ (Count(io, "load_workbook") > 0
                /\ site \notin {"load_workbook"})
               => Count(io, "close") > 0

\* A cell that holds a text float() does not read.
NoNumber(cell) == cell # None /\ float(cell[1]).float = "ValueError"

\* The score cell of a row as the flat layout finds it.
ScoreCellFlat(row) == IF Len(row) = 4 THEN row[4] ELSE row[5]

\* get_uefiscdi_database parsed a worksheet and saved its entries.
ScoresSaved ==
    /\ pc = "cmd"
    /\ op = "get"
    /\ site = "saved"
    /\ database \in {"ais", "ris", "rif"}

\* C15: a data row the row loop reaches whose score cell holds a text that
\* is no number gives an entry with score None (no number stands in for
\* it), and the loop goes on to the row after it.
C15_UnparsableScoreIsNone ==
    /\ (ScoreReturned /\ file.kind = "plain") =>
           LET data == Tail(file.sheet)
           IN \A i \in 1..Len(data) :
                  (/\ \A j \in 1..(i - 1) : ScoreCell(data[j]) # None
                   /\ NoNumber(ScoreCell(data[i])))
                      => /\ Len(ret) >= i
                         /\ ret[i].score = None
                         /\ (i < Len(data) /\ ScoreCell(data[i + 1]) # None)
                                => Len(ret) >= i + 1
    /\ ScoresSaved =>
           LET data == Tail(file.sheet)
           IN \A i \in 1..Len(data) :
                  (/\ \A j \in 1..(i - 1) : ScoreCellFlat(data[j]) # None
                   /\ NoNumber(ScoreCellFlat(data[i])))
                      => /\ Len(db[1].entries) >= i
                         /\ db[1].entries[i].score = None

\* get_uefiscdi_database handed a downloaded document of a release the
\* flat layout supports to a zone parser.
ZoneParserRan ==
    /\ pc = "cmd"
    /\ op = "get"
    /\ database \in {"aisq", "jifq"}
    /\ version \in _SUPPORTED_VERSIONS_flat
    /\ file # NoFile
    /\ site \in {"parse", "mkdir", "saved"}

\* C16: a line that is no row never ends the parse of a page with an
\* exception: the zone parser of the flat layout, run on a document that
\* is there and of a supported release, raises nothing, and a page grammar
\* called with a known format raises only when the whole page gave no
\* entry.
C16_RowMissNeverRaises ==
    /\ ZoneParserRan => site # "parse" /\ caught = ""
    /\ (pc = "done" /\ op = "page" /\ fmt \in {"ais", "jif"}) =>
           raised \in {"", "RuntimeError"}

\* The number of cells of a row in the layout of a database of a release.
Width(layout) == IF layout = "rifris" THEN 4 ELSE 6

\* The data rows of a worksheet that have the width of a layout.
Fitting(sheet, layout) ==
    {i \in 2..Len(sheet) : Len(sheet[i]) = Width(layout)}

\* C17: the column layout follows from the database and the release alone:
\* every row that gave an entry has the width of that layout, so a row of
\* another width is never decoded under another layout.
C17_LayoutByKindAndYear ==
    /\ (ScoreReturned /\ file.kind = "plain") =>
           \A i \in 1..Len(ret) :
               (i + 1) \in Fitting(file.sheet, LayoutOf(op, version))
    /\ ScoresSaved =>
           Len(db[1].entries)
               <= Cardinality(Fitting(file.sheet, LayoutOf(database, version)))

\* An entry that lacks a quartile: the field is None, or holds the "N/A"
\* of the document.
NoQuartile(e) == e.quartile = None \/ e.quartile = Some(<<"N/A">>)

\* Among the entries of one index and category no entry that lacks a
\* quartile comes before one that has a quartile.
NoQuartileLast(entries) ==
    \A i, j \in 1..Len(entries) :
        (/\ i < j
         /\ entries[i].index = entries[j].index
         /\ entries[i].category = entries[j].category
         /\ NoQuartile(entries[i])) => NoQuartile(entries[j])

\* get_uefiscdi_database parsed a quartile document and saved its entries.
ZonesSaved ==
    /\ pc = "cmd"
    /\ op = "get"
    /\ site = "saved"
    /\ database \in {"aisq", "jifq"}

\* C18: in the result of a quartile document, among the entries of one
\* index and category, every entry that lacks a quartile comes after every
\* entry that has one of Q1..Q4.
C18_NoQuartileSortsLast ==
    /\ QuartileReturned => NoQuartileLast(ret)
    /\ ZonesSaved => NoQuartileLast(db[1].entries)

\* A page grammar was called with a format it knows.
PageParsed == pc = "done" /\ op = "page" /\ fmt \in {"ais", "jif"}

\* The row buffer when the n-th line the row loop reads has been appended
\* to it and the match is attempted.
BufferAt(n) ==
    LET read_lines == RowLines(lines, offset)
        before == SubSeq(read_lines, 1, n - 1)
    IN (IF version = 2024 THEN RowLoop2024(before, <<>>, <<>>, fmt).row
        ELSE RowLoop2023(before, <<>>, <<>>).row) \o read_lines[n]

\* The n-th line the row loop reads with the two lines read before it.
LastThree(n) ==
    LET read_lines == RowLines(lines, offset)
    IN (IF n > 2 THEN read_lines[n - 2] ELSE <<>>)
           \o (IF n > 1 THEN read_lines[n - 1] ELSE <<>>) \o read_lines[n]

\* C19: at every step of the row loop of a page the row buffer holds no
\* more than the current line and the two lines before it.
C19_BufferBounded ==
    PageParsed =>
        \A n \in 1..Len(RowLines(lines, offset)) :
            Len(BufferAt(n)) <= Len(LastThree(n))

\* A page without a header block: no line of it holds the header names.
HeaderFree(v, page) == \A i \in 1..Len(page) : ~AllHeader(v, page[i])

\* C20: on a page without a header block the header locator gives offset 0,
\* so that no line of the page is skipped, also when a row of the page
\* holds a word of the header.
C20_NoHeaderOffsetZero ==
    (PageParsed /\ HeaderFree(version, lines)) => offset = 0

\* The entries of the complete rows that one line holds by itself.
LineEntries(v, line, f) ==
    IF v = 2024
    THEN {row2entry_2024(g, f) : g \in Range(FindIter2024(line, 1))}
    ELSE {row2entry_2023(g) : g \in Range(FindIter2023(line, 1))}

\* C21: every line of a page from the header offset on is a row candidate,
\* the last line of the page included: a line that holds a complete row
\* gives the entry of that row.
C21_EveryLineOffered ==
    PageParsed =>
        \A i \in (offset + 1)..Len(lines) :
            LineEntries(version, lines[i], fmt) \subseteq Range(ret)

\* The values the quartile of an entry may have.
QuartileValues == {None} \cup {Some(<<q>>) : q \in {"Q1", "Q2", "Q3", "Q4"}}

\* C22: in every entry a parser gives, of either page grammar, of the
\* quartile entry points, of the worksheet parsers and of the zone parsers
\* behind get_uefiscdi_database, quartile is one of Q1..Q4 or None.
C22_QuartileValues ==
    /\ (PageReturned \/ QuartileReturned \/ ScoreReturned) =>
           \A i \in 1..Len(ret) : ret[i].quartile \in QuartileValues
    /\ ZonesSaved =>
           \A i \in 1..Len(db[1].entries) :
               db[1].entries[i].quartile \in QuartileValues

\* The values the index of an entry may have.
IndexValues == {None} \cup {Some(<<c>>) : c \in IndexCodes}

\* The lines of a page of a zone document that the flat layout parses.
ZoneCandidates(page) == {page[i] : i \in 3..Len(page)}

\* C23: in every entry a parser gives, index is None or one of AHCI, ESCI,
\* SCIE, SSCI, and a complete row whose index is one of the four is
\* accepted: it has an entry of its name and index in the result.
C23_IndexCodes ==
    /\ (PageReturned \/ QuartileReturned \/ ScoreReturned) =>
           \A i \in 1..Len(ret) : ret[i].index \in IndexValues
    /\ ZonesSaved =>
           /\ \A i \in 1..Len(db[1].entries) :
                  db[1].entries[i].index \in IndexValues
           /\ \A p \in 1..Len(file.pages) :
                  \A line \in ZoneCandidates(file.pages[p]) :
                      \A x \in LineEntries(2023, line, "jif") :
                          \E i \in 1..Len(db[1].entries) :
                              /\ db[1].entries[i].name = x.name
                              /\ db[1].entries[i].index = x.index

\* The decimal values of the digit-only tokens that end a line the row loop
\* of a page reads.
PositionTokens(page) ==
    {DigitValue(page[i][Len(page[i])]) :
        i \in {k \in 1..Len(page) : page[k][Len(page[k])] \in DigitTokens}}

\* C24 as it is claimed: the position of every entry of a page grammar is
\* a non-negative integer, the decimal value of the digit-only token that
\* ends its row.
C24_PositionValue ==
    PageReturned =>
        \A i \in 1..Len(ret) :
            /\ ret[i].position # None
            /\ ret[i].position[1] >= 0
            /\ ret[i].position[1] \in PositionTokens(RowLines(lines, offset))

\* C24: every entry of the 2023 grammar has as position the non-negative
\* decimal value of the digit-only token that ends its row; the rows of the
\* 2024 grammar have no such token and every entry of it has position -1.
C24_PositionByGrammar ==
    PageReturned =>
        \A i \in 1..Len(ret) :
            IF version = 2024 THEN ret[i].position = Some(-1)
            ELSE /\ ret[i].position # None
                 /\ ret[i].position[1] >= 0
                 /\ ret[i].position[1]
                        \in PositionTokens(RowLines(lines, offset))

\* C24 witness: a page of the 2023 grammar whose two rows end with 7 and 12.
C24_Witness ==
    /\ PageReturned
    /\ version = 2023
    /\ Len(ret) = 2
    /\ ret[1].position = Some(7)
    /\ ret[2].position = Some(12)

\* The quartile an entry takes from a quartile token of a row.
QuartileOf(tok) == IF tok = "N/A" THEN None ELSE Some(<<tok>>)

\* The (JIF quartile, AIS quartile) pairs that end the lines of a page.
QuartilePairs(page) ==
    {<<QuartileOf(page[i][Len(page[i]) - 1]), QuartileOf(page[i][Len(page[i])])>> :
        i \in {k \in 1..Len(page) : Len(page[k]) >= 2}}

\* An entry with its quartile left out.
NoQuartileField(e) == [e EXCEPT !.quartile = None]

\* What the two formats of the 2024 grammar give on the same lines: the
\* same outcome, entry for entry equal but for the quartile, which is that
\* of the JIF column for "jif" and that of the AIS column for "ais".
SameButQuartile(jif, ais, page) ==
    /\ jif.raised = ais.raised
    /\ Len(jif.entries) = Len(ais.entries)
    /\ \A i \in 1..Len(jif.entries) :
           /\ NoQuartileField(jif.entries[i]) = NoQuartileField(ais.entries[i])
           /\ <<jif.entries[i].quartile, ais.entries[i].quartile>>
                  \in QuartilePairs(page)

\* C25: parse_2024_quartile_zone_entries takes the quartile from the JIF
\* column with fmt "jif" and from the AIS column with fmt "ais"; on the same
\* lines the two formats give the same entries in the same order but for
\* the quartile; any other fmt raises ValueError and gives no entry.
C25_FormatSelectsColumn ==
    (pc = "done" /\ op = "page" /\ version = 2024) =>
        IF fmt \notin {"ais", "jif"}
        THEN raised = "ValueError" /\ site = "fmt" /\ ret = <<>>
        ELSE /\ ret = parse_2024_quartile_zone_entries(lines, fmt).entries
             /\ SameButQuartile(
                    parse_2024_quartile_zone_entries(lines, "jif"),
                    parse_2024_quartile_zone_entries(lines, "ais"),
                    RowLines(lines, offset))

\* C25 witness: a page read with fmt "ais" whose first entry has the
\* quartile Q1 of the AIS column where fmt "jif" gives the Q2 of the JIF
\* column.
C25_Witness ==
    /\ PageReturned
    /\ version = 2024
    /\ fmt = "ais"
    /\ ret[1].quartile = Some(<<"Q1">>)
    /\ parse_2024_quartile_zone_entries(lines, "jif").entries[1].quartile
           = Some(<<"Q2">>)

\* A call of get_uefiscdi_database whose extraction failed: no url for the
\* release or the database, or parse_uefiscdi ended with an exception.
ExtractionFailed ==
    /\ calls' = calls + 1
    /\ op' = "get"
    /\ site' \in {"url", "parse"}

\* C26: a call of get_uefiscdi_database whose extraction fails returns the
\* empty mapping, raises nothing and leaves every cache file as it was.
C26_FailureLeavesCache ==
    [][ExtractionFailed => (raised' = "" /\ db' = None /\ cache' = cache)]_vars

\* A call of the command layer answered from a cache file.
AnyCacheRead ==
    /\ pc = "cmd"
    /\ op \in {"get", "load", "getflat"}
    /\ site = "cache"

\* C27: distinct (database, release) pairs have distinct cache files, and
\* a call for a database and a release that is answered from the cache
\* returns a mapping whose id and version are the ones asked for.
C27_CacheKeyedByIdAndYear ==
    /\ \A d1, d2 \in DatabaseIds, y1, y2 \in {2023, 2024} :
           <<d1, y1>> # <<d2, y2>> =>
               get_uefiscdi_database_path(d1, y1)
                   # get_uefiscdi_database_path(d2, y2)
    /\ AnyCacheRead => db[1].id = database /\ db[1].version = version

\* parse_uefiscdi_database_from_url found the path named by url on the
\* disk: it looked for it and started no download.
LocalFileFound ==
    /\ pc = "done"
    /\ op = "from_url"
    /\ io # <<>>
    /\ io[1] = "exists"
    /\ Count(io, "download") = 0

\* C28: when the url names a file that exists, parse_uefiscdi_database_from_url
\* parses that file without a download: the call does not end with
\* FileNotFoundError, and the mapping it returns has the file name as url.
C28_LocalFileParsed ==
    LocalFileFound =>
        /\ raised # "FileNotFoundError"
        /\ raised = "" => (db # None /\ db[1].url = url)

\* A line that holds a complete row by itself.
CompleteRow(line) == FindIter2023(line, 1) # <<>>

\* The text a row that ends on line i of a page may be built from: the
\* line itself with the lines before it that the flat layout looks back
\* at, those left out that are complete rows of their own.
OwnText(page, i) ==
    (IF CompleteRow(page[i - 2]) THEN <<>> ELSE page[i - 2])
        \o (IF CompleteRow(page[i - 1]) THEN <<>> ELSE page[i - 1])
        \o page[i]

\* The journal names that can be cut from a text.
NamesIn(text) ==
    {titlecase(SubSeq(text, a, b)) : a \in 1..Len(text), b \in 1..Len(text)}

\* The number of entries the row loop of the page grammar of the call has
\* emitted when it has read n lines, and the buffer it then holds.
LoopAfter(n) ==
    IF version = 2024
    THEN RowLoop2024(SubSeq(RowLines(lines, offset), 1, n), <<>>, <<>>, fmt)
    ELSE RowLoop2023(SubSeq(RowLines(lines, offset), 1, n), <<>>, <<>>)

\* C29: no line of a page gives text to two entries: the buffer of a page
\* grammar is empty after every step that emits, and the name of an entry
\* of a zone document is cut from the lines of its own row, not from a
\* line before it that is a complete row.
C29_LinesUsedOnce ==
    /\ PageParsed =>
           \A n \in 1..Len(RowLines(lines, offset)) :
               Len(LoopAfter(n).entries) > Len(LoopAfter(n - 1).entries)
                   => LoopAfter(n).row = <<>>
    /\ ZonesSaved =>
           \A k \in 1..Len(db[1].entries) :
               \E p \in 1..Len(file.pages) :
                   \E i \in 3..Len(file.pages[p]) :
                       db[1].entries[k].name[1]
                           \in NamesIn(OwnText(file.pages[p], i))

\* A score entry point was called on a readable worksheet with no rows.
EmptySheetRead ==
    /\ pc = "done"
    /\ op \in {"ais", "ris", "rif"}
    /\ file.kind = "plain"
    /\ file.sheet = <<>>

\* C30: _parse_score_entries drops the first worksheet row undecoded,
\* whatever it holds, and decodes from the second row on; on a worksheet
\* with no rows the call gives an empty result or a reported failure, not
\* an uncaught StopIteration.
C30_HeaderDroppedEmptySheetSafe ==
    /\ (ScoreSheetRead /\ site \in {"", "getter"}) =>
           /\ decoded <= Len(file.sheet) - 1
           /\ \A h \in RowsOf(LayoutOf(op, version)) :
                  LET out == _parse_score_entries(<<h>> \o Tail(file.sheet),
                                                  LayoutOf(op, version))
                  IN /\ out.decoded = decoded
                     /\ out.raised = raised
                     /\ raised = "" => out.entries = ret
    /\ EmptySheetRead => raised # "StopIteration"

====
